---- MODULE Spec2Model ----
(***************************************************************************)
(* A model of pycstruct (src/pycstruct/pycstruct.py, instance.py): the     *)
(* definitions BitfieldDef, EnumDef, StructDef with their add operations,  *)
(* the byte layout they compute and the serialize / deserialize codecs.    *)
(*                                                                         *)
(* Python integers are unbounded; TLC's are 32 bit.  A Python int is       *)
(* therefore modelled by its two's complement bits, exactly and unbounded. *)
(***************************************************************************)
EXTENDS Integers, Sequences, FiniteSets, TLC

VARIABLES
    phase,          \* "define": the definitions are being built; "run": in use
    sys_byteorder,  \* sys.byteorder of the platform: "little" or "big"
    bitfield,       \* a BitfieldDef object
    enum,           \* an EnumDef object
    sdef,           \* a StructDef object
    buffer,         \* the bytearray the codecs work on
    start_offset,   \* the offset in buffer the codec or Instance is bound to
    nops,           \* the number of writes made to buffer
    op              \* the last operation: its arguments, outcome, pre-state

vars == <<phase, sys_byteorder, bitfield, enum, sdef, buffer, start_offset, nops, op>>

-----------------------------------------------------------------------------------------------------------------------------------------------------
(* Python int arithmetic.  An int x is [neg, bits]: x >= 0 is the sum of   *)
(* 2^i over bits; x < 0 is ~m = -m - 1 for the m >= 0 whose bits are bits. *)

Min(a, b) == IF a < b THEN a ELSE b

Max(a, b) == IF a > b THEN a ELSE b

Zero == [neg |-> FALSE, bits |-> {}]

One == [neg |-> FALSE, bits |-> {0}]

MinusOne == [neg |-> TRUE, bits |-> {}]

\* ~x
BitNot(x) == [neg |-> ~x.neg, bits |-> x.bits]

\* x & y
BitAnd(x, y) ==
    IF x.neg
    THEN IF y.neg THEN [neg |-> TRUE, bits |-> x.bits \cup y.bits]
                  ELSE [neg |-> FALSE, bits |-> y.bits \ x.bits]
    ELSE IF y.neg THEN [neg |-> FALSE, bits |-> x.bits \ y.bits]
                  ELSE [neg |-> FALSE, bits |-> x.bits \cap y.bits]

\* x | y
BitOr(x, y) ==
    IF x.neg
    THEN IF y.neg THEN [neg |-> TRUE, bits |-> x.bits \cap y.bits]
                  ELSE [neg |-> TRUE, bits |-> x.bits \ y.bits]
    ELSE IF y.neg THEN [neg |-> TRUE, bits |-> y.bits \ x.bits]
                  ELSE [neg |-> FALSE, bits |-> x.bits \cup y.bits]

\* the bits of m + 1, S the bits of m
NatInc(S) ==
    LET j == CHOOSE k \in 0 .. Cardinality(S) : k \notin S /\ \A i \in 0 .. (k - 1) : i \in S
    IN  {i \in S : i > j} \cup {j}

\* the bits of m - 1, S the bits of m > 0
NatDec(S) ==
    LET j == CHOOSE k \in S : \A i \in 0 .. (k - 1) : i \notin S
    IN  (S \ {j}) \cup (0 .. (j - 1))

\* x + 1
Inc(x) ==
    IF ~x.neg THEN [neg |-> FALSE, bits |-> NatInc(x.bits)]
    ELSE IF x.bits = {} THEN Zero
    ELSE [neg |-> TRUE, bits |-> NatDec(x.bits)]

\* x - 1
Dec(x) ==
    IF x.neg THEN [neg |-> TRUE, bits |-> NatInc(x.bits)]
    ELSE IF x.bits = {} THEN MinusOne
    ELSE [neg |-> FALSE, bits |-> NatDec(x.bits)]

\* -1 * x
Neg(x) == Inc(BitNot(x))

\* x << k
Shl(x, k) ==
    [neg |-> x.neg,
     bits |-> {i + k : i \in x.bits} \cup (IF x.neg THEN 0 .. (k - 1) ELSE {})]

\* x >> k
Shr(x, k) == [neg |-> x.neg, bits |-> {i - k : i \in {b \in x.bits : b >= k}}]

\* 2 ** n
Pow2(n) == [neg |-> FALSE, bits |-> {n}]

NatLess(A, B) == \E i \in B \ A : \A j \in A \ B : j < i

\* x < y
Less(x, y) ==
    IF x.neg # y.neg THEN x.neg
    ELSE IF x.neg THEN NatLess(y.bits, x.bits)
    ELSE NatLess(x.bits, y.bits)

Leq(x, y) == x = y \/ Less(x, y)

\* the int of a small literal n (|n| < 2^31)
FromInt(n) ==
    IF n >= 0 THEN [neg |-> FALSE, bits |-> {i \in 0 .. 30 : (n \div (2 ^ i)) % 2 = 1}]
    ELSE [neg |-> TRUE, bits |-> {i \in 0 .. 30 : ((-n - 1) \div (2 ^ i)) % 2 = 1}]

\* the value of bit i of a byte 0..255
ByteBits(b) == {i \in 0 .. 7 : (b \div (2 ^ i)) % 2 = 1}

BitVal(S, i) == IF i \in S THEN 2 ^ i ELSE 0

\* the byte whose set bits are S \subseteq 0..7
ByteOf(S) ==
    BitVal(S, 0) + BitVal(S, 1) + BitVal(S, 2) + BitVal(S, 3)
    + BitVal(S, 4) + BitVal(S, 5) + BitVal(S, 6) + BitVal(S, 7)

\* the bit position of bit 0 of the j-th byte (1-based) of n bytes
BytePos(j, n, byteorder) == IF byteorder = "little" THEN 8 * (j - 1) ELSE 8 * (n - j)

\* int.from_bytes(bs, byteorder, signed=False)
FromBytes(bs, byteorder) ==
    [neg |-> FALSE,
     bits |-> UNION {{BytePos(j, Len(bs), byteorder) + i : i \in ByteBits(bs[j])}
                     : j \in 1 .. Len(bs)}]

\* x.to_bytes(n, byteorder, signed=False) raises OverflowError
ToBytesRaises(x, n) == x.neg \/ \E i \in x.bits : i >= 8 * n

\* x.to_bytes(n, byteorder, signed=False)
ToBytes(x, n, byteorder) ==
    [j \in 1 .. n |->
        ByteOf({i \in 0 .. 7 : BytePos(j, n, byteorder) + i \in x.bits})]

\* buffer[a:b]  (Python clamps a slice to the sequence)
Slice(buf, a, b) == SubSeq(buf, Min(a, Len(buf)) + 1, Min(b, Len(buf)))

\* buffer[a:b] = bs
SetSlice(buf, a, b, bs) ==
    LET lo == Min(a, Len(buf))
        hi == Max(lo, Min(b, Len(buf)))
    IN  SubSeq(buf, 1, lo) \o bs \o SubSeq(buf, hi + 1, Len(buf))

\* bytearray(n)
ZeroBytes(n) == [j \in 1 .. n |-> 0]

-----------------------------------------------------------------------------
(* BitfieldDef                                                             *)

\* the width of the constant 0xFFFFFFFFFFFFFFFF that masks a bitfield element
MaskBits == 64

\* BitfieldDef.__init__
BitfieldDef_init(byteorder, size, native) ==
    [byteorder |-> IF byteorder = "native" THEN native ELSE byteorder,
     size |-> size,
     fields |-> <<>>]

RECURSIVE SumBits(_)
SumBits(fields) ==
    IF fields = <<>> THEN 0 ELSE Head(fields).nbr_of_bits + SumBits(Tail(fields))

\* BitfieldDef.assigned_bits
BitfieldDef_assigned_bits(bf) == SumBits(bf.fields)

\* BitfieldDef.size
BitfieldDef_size(bf) ==
    IF bf.size >= 0 THEN bf.size
    ELSE (BitfieldDef_assigned_bits(bf) + 7) \div 8

\* BitfieldDef._max_bits
BitfieldDef_max_bits(bf) == IF bf.size >= 0 THEN bf.size * 8 ELSE 64

\* BitfieldDef._element_names
BitfieldDef_element_names(bf) == [i \in 1 .. Len(bf.fields) |-> bf.fields[i].name]

BitfieldDef_has(bf, name) == \E i \in 1 .. Len(bf.fields) : bf.fields[i].name = name

\* self.__fields[name]
BitfieldDef_field(bf, name) ==
    bf.fields[CHOOSE i \in 1 .. Len(bf.fields) : bf.fields[i].name = name]

\* BitfieldDef.add: [raised, bf]
BitfieldDef_add(bf, name, nbr_of_bits, signed) ==
    LET assigned == BitfieldDef_assigned_bits(bf)
    IN  IF BitfieldDef_has(bf, name) THEN [raised |-> TRUE, bf |-> bf]
        ELSE IF assigned + nbr_of_bits > BitfieldDef_max_bits(bf)
        THEN [raised |-> TRUE, bf |-> bf]
        ELSE [raised |-> FALSE,
              bf |-> [bf EXCEPT !.fields =
                        Append(@, [name |-> name, nbr_of_bits |-> nbr_of_bits,
                                   signed |-> signed, offset |-> assigned])]]

\* mask = 0xFFFFFFFFFFFFFFFF >> (64 - nbr_of_bits): a negative shift count raises
MaskRaises(nbr_of_bits) == MaskBits - nbr_of_bits < 0

Mask(nbr_of_bits) ==
    Shr(Dec(Pow2(MaskBits)), MaskBits - nbr_of_bits)

\* get_subvalue testing bit nbr_of_bits instead of nbr_of_bits - 1 as the sign bit
get_subvalue_wrong_sign_bit(value, nbr_of_bits, start_bit, signed) ==
    IF MaskRaises(nbr_of_bits) THEN [raised |-> TRUE, value |-> Zero]
    ELSE
    LET non_signed_value == BitAnd(Shr(value, start_bit), Mask(nbr_of_bits))
    IN  IF ~signed \/ BitAnd(non_signed_value, Pow2(nbr_of_bits)) = Zero
        THEN [raised |-> FALSE, value |-> non_signed_value]
        ELSE [raised |-> FALSE,
              value |-> Neg(Inc(BitAnd(BitNot(non_signed_value), Mask(nbr_of_bits))))]

\* BitfieldDef._get_subvalue: [raised, value]
get_subvalue(value, nbr_of_bits, start_bit, signed) ==
    IF MaskRaises(nbr_of_bits) THEN [raised |-> TRUE, value |-> Zero]
    ELSE
    LET shifted_value == Shr(value, start_bit)
        mask == Mask(nbr_of_bits)
        non_signed_value == BitAnd(shifted_value, mask)
        sign_bit == Pow2(nbr_of_bits - 1)
    IN  IF ~signed THEN [raised |-> FALSE, value |-> non_signed_value]
        ELSE IF BitAnd(non_signed_value, sign_bit) = Zero
        THEN [raised |-> FALSE, value |-> non_signed_value]
        ELSE [raised |-> FALSE,
              value |-> Neg(Inc(BitAnd(BitNot(non_signed_value), mask)))]

\* the range check with the unsigned maximum used for signed elements too
SubvalueOutOfRange_unsigned_max(subvalue, nbr_of_bits, signed) ==
    LET max_value == Dec(Pow2(nbr_of_bits))
        min_value == IF signed THEN Neg(Pow2(nbr_of_bits - 1)) ELSE Zero
    IN  Less(max_value, subvalue) \/ Less(subvalue, min_value)

\* the range check of BitfieldDef._set_subvalue raises
SubvalueOutOfRange(subvalue, nbr_of_bits, signed) ==
    LET max_value == IF signed THEN Dec(Pow2(nbr_of_bits - 1)) ELSE Dec(Pow2(nbr_of_bits))
        min_value == IF signed THEN Neg(Pow2(nbr_of_bits - 1)) ELSE Zero
    IN  Less(max_value, subvalue) \/ Less(subvalue, min_value)

\* set_subvalue masking the subvalue one bit too wide
set_subvalue_wide_mask(value, subvalue, nbr_of_bits, start_bit, signed) ==
    IF SubvalueOutOfRange(subvalue, nbr_of_bits, signed) \/ MaskRaises(nbr_of_bits + 1)
    THEN [raised |-> TRUE, value |-> value]
    ELSE [raised |-> FALSE,
          value |-> BitOr(value, Shl(BitAnd(subvalue, Mask(nbr_of_bits + 1)), start_bit))]

\* BitfieldDef._set_subvalue: [raised, value]
set_subvalue(value, subvalue, nbr_of_bits, start_bit, signed) ==
    IF SubvalueOutOfRange(subvalue, nbr_of_bits, signed)
    THEN [raised |-> TRUE, value |-> value]
    ELSE IF MaskRaises(nbr_of_bits) THEN [raised |-> TRUE, value |-> value]
    ELSE
    LET sign_bit == Pow2(nbr_of_bits - 1)
        converted == IF signed /\ Less(subvalue, Zero)
                     THEN BitOr(sign_bit, BitNot(Dec(Neg(subvalue))))
                     ELSE subvalue
        mask == Mask(nbr_of_bits)
        shifted_subvalue == Shl(BitAnd(converted, mask), start_bit)
    IN  [raised |-> FALSE, value |-> BitOr(value, shifted_subvalue)]

\* BitfieldDef._deserialize_element: [raised, value]
BitfieldDef_deserialize_element(bf, name, buf, buffer_offset) ==
    LET size == BitfieldDef_size(bf)
        full_value == FromBytes(Slice(buf, buffer_offset, buffer_offset + size), bf.byteorder)
        field == BitfieldDef_field(bf, name)
    IN  get_subvalue(full_value, field.nbr_of_bits, field.offset, field.signed)

\* BitfieldDef._serialize_element: [raised, buffer]
BitfieldDef_serialize_element(bf, name, value, buf, buffer_offset) ==
    LET size == BitfieldDef_size(bf)
        full_value == FromBytes(Slice(buf, buffer_offset, buffer_offset + size), bf.byteorder)
        field == BitfieldDef_field(bf, name)
        new == set_subvalue(full_value, value, field.nbr_of_bits, field.offset, field.signed)
    IN  IF new.raised THEN [raised |-> TRUE, buffer |-> buf]
        ELSE IF ToBytesRaises(new.value, size) THEN [raised |-> TRUE, buffer |-> buf]
        ELSE [raised |-> FALSE,
              buffer |-> SetSlice(buf, buffer_offset, buffer_offset + size,
                                  ToBytes(new.value, size, bf.byteorder))]

-----------------------------------------------------------------------------
(* SpecSub: one bitfield element "x" of any width 1..64, after an optional  *)
(* element "pad", written through BitfieldDef._serialize_element            *)

NoEnum == [byteorder |-> "little", size |-> -1, signed |-> FALSE, constants |-> <<>>]

NoStruct ==
    [default_byteorder |-> "native", alignment |-> 1, union |-> FALSE, pad_count |-> 0,
     fields |-> <<>>, fields_same_level |-> <<>>, pad_end_length |-> 0]

NoBitfield == [byteorder |-> "little", size |-> -1, fields |-> <<>>]

\* the width of the optional leading element
LeadBits == 5

\* bytes of the buffer after the bitfield
Slack == 1

\* the number of writes made to one buffer
MaxWrites == 1

BytePatterns == {0, 165}

\* the values tried on an element of width n: the boundaries of both ranges
Candidates(n) ==
    {MinusOne, Zero, One,
     Dec(Pow2(n - 1)), Pow2(n - 1), Neg(Pow2(n - 1)), Dec(Neg(Pow2(n - 1))),
     Dec(Pow2(n)), Pow2(n)}

SubInit ==
    /\ phase = "define"
    /\ sys_byteorder \in {"little", "big"}
    /\ bitfield = BitfieldDef_init("native", -1, sys_byteorder)
    /\ enum = NoEnum
    /\ sdef = NoStruct
    /\ buffer = <<>>
    /\ start_offset = 0
    /\ nops = 0
    /\ op = [kind |-> "init"]

\* bitfield.add("pad", LeadBits) or bitfield.add("x", n, signed)
SubAdd ==
    /\ phase = "define"
    /\ ~BitfieldDef_has(bitfield, "x")
    /\ \E name \in {"pad", "x"} :
        \E n \in (IF name = "pad" THEN {LeadBits} ELSE 1 .. MaskBits),
           signed \in (IF name = "pad" THEN {FALSE} ELSE BOOLEAN) :
            LET r == BitfieldDef_add(bitfield, name, n, signed)
            IN  /\ bitfield' = r.bf
                /\ op' = [kind |-> "add", name |-> name, raised |-> r.raised]
    /\ UNCHANGED <<phase, sys_byteorder, enum, sdef, buffer, start_offset, nops>>

\* a caller's buffer holding the bitfield at start_offset
SubLoad ==
    /\ phase = "define"
    /\ BitfieldDef_has(bitfield, "x")
    /\ phase' = "run"
    /\ \E o \in {0, 1}, b \in BytePatterns :
        /\ (o = 0) = (b = 0)
        /\ start_offset' = o
        /\ buffer' = [j \in 1 .. (o + BitfieldDef_size(bitfield) + Slack) |-> b]
    /\ op' = [kind |-> "load"]
    /\ UNCHANGED <<sys_byteorder, bitfield, enum, sdef, nops>>

\* bitfield._serialize_element("x", value, buffer, start_offset)
SubWrite ==
    /\ phase = "run"
    /\ nops < MaxWrites
    /\ nops' = nops + 1
    /\ \E value \in Candidates(BitfieldDef_field(bitfield, "x").nbr_of_bits) :
        LET r == BitfieldDef_serialize_element(bitfield, "x", value, buffer, start_offset)
        IN  /\ buffer' = r.buffer
            /\ op' = [kind |-> "serialize_element", name |-> "x", value |-> value,
                      raised |-> r.raised, before |-> buffer]
    /\ UNCHANGED <<phase, sys_byteorder, bitfield, enum, sdef, start_offset>>

SubNext == SubAdd \/ SubLoad \/ SubWrite

SpecSub == SubInit /\ [][SubNext]_vars

\* the element "x" of the bitfield
ElemX == BitfieldDef_field(bitfield, "x")

IsZeroBytes(bs) == \A j \in 1 .. Len(bs) : bs[j] = 0

\* C2: for a signed element of width N in 1..64, serializing -1 into a
\* zero-filled buffer and deserializing it returns -1; 2^(N-1)-1 and -2^(N-1)
\* are accepted, 2^(N-1) and -2^(N-1)-1 raise.
C2_TwosComplement ==
    (op.kind = "serialize_element" /\ ElemX.signed) =>
        LET n == ElemX.nbr_of_bits
            maxv == Dec(Pow2(n - 1))
            minv == Neg(Pow2(n - 1))
        IN  /\ op.value \in {maxv, minv} => ~op.raised
            /\ op.value \in {Inc(maxv), Dec(minv)} => op.raised
            /\ (op.value = MinusOne /\ IsZeroBytes(op.before)) =>
                   /\ ~op.raised
                   /\ BitfieldDef_deserialize_element(bitfield, "x", buffer, start_offset)
                        = [raised |-> FALSE, value |-> MinusOne]

\* -1 written to a signed 64 bit element of a zero-filled buffer: eight 0xFF bytes
C2_Witness ==
    /\ op.kind = "serialize_element"
    /\ ElemX.signed /\ ElemX.nbr_of_bits = 64
    /\ op.value = MinusOne /\ ~op.raised
    /\ IsZeroBytes(op.before)
    /\ buffer = <<255, 255, 255, 255, 255, 255, 255, 255, 0>>

\* lo <= v <= hi
InRange(v, lo, hi) == Leq(lo, v) /\ Leq(v, hi)

\* C7: writing one bitfield element raises when the value is outside
\* [-2^(w-1), 2^(w-1)-1] (signed) or [0, 2^w-1] (unsigned), and a write that
\* raises leaves the buffer bytes unchanged.
C7_RangeChecked ==
    op.kind = "serialize_element" =>
        LET w == ElemX.nbr_of_bits
            ok == IF ElemX.signed
                  THEN InRange(op.value, Neg(Pow2(w - 1)), Dec(Pow2(w - 1)))
                  ELSE InRange(op.value, Zero, Dec(Pow2(w)))
        IN  /\ ~ok => op.raised
            /\ op.raised => buffer = op.before

\* 2^64 refused by an unsigned 64 bit element of a buffer holding other bits
C7_Witness ==
    /\ op.kind = "serialize_element"
    /\ ~ElemX.signed /\ ElemX.nbr_of_bits = 64
    /\ op.value = Pow2(64) /\ op.raised
    /\ buffer = op.before /\ buffer[2] = 165

-----------------------------------------------------------------------------
(* SpecBits: a BitfieldDef of several small elements, built by add and      *)
(* written element by element into a buffer that already holds bits         *)

\* the number of elements added to the bitfield
MaxElems == 2

BitsNames == <<"a", "b", "c", "d", "e">>

BitsWidths == {1, 4, 5}

\* the values written to an element of width n
BitsValues(n) == {MinusOne, Zero, One, Dec(Pow2(n)), Neg(Pow2(n - 1)), Pow2(n)}

BitsInit ==
    /\ phase = "define"
    /\ sys_byteorder \in {"little", "big"}
    /\ \E size \in {-1, 1} : bitfield = BitfieldDef_init("native", size, sys_byteorder)
    /\ enum = NoEnum
    /\ sdef = NoStruct
    /\ buffer = <<>>
    /\ start_offset = 0
    /\ nops = 0
    /\ op = [kind |-> "init"]

\* bitfield.add(name, n, signed): a new name, or one that exists already
BitsAdd ==
    /\ phase = "define"
    /\ Len(bitfield.fields) < MaxElems
    /\ \E k \in 1 .. (Len(bitfield.fields) + 1), n \in BitsWidths, signed \in BOOLEAN :
        LET r == BitfieldDef_add(bitfield, BitsNames[k], n, signed)
        IN  /\ bitfield' = r.bf
            /\ op' = [kind |-> "add", name |-> BitsNames[k], raised |-> r.raised]
    /\ UNCHANGED <<phase, sys_byteorder, enum, sdef, buffer, start_offset, nops>>

\* a caller's buffer holding the bitfield at start_offset
BitsLoad ==
    /\ phase = "define"
    /\ bitfield.fields # <<>>
    /\ phase' = "run"
    /\ \E o \in {0, 1}, b \in BytePatterns :
        /\ (o = 0) = (b # 0)
        /\ start_offset' = o
        /\ buffer' = [j \in 1 .. (o + BitfieldDef_size(bitfield) + Slack) |-> b]
    /\ op' = [kind |-> "load"]
    /\ UNCHANGED <<sys_byteorder, bitfield, enum, sdef, nops>>

\* bitfield._serialize_element(name, value, buffer, start_offset)
BitsWrite ==
    /\ phase = "run"
    /\ nops < MaxWrites
    /\ nops' = nops + 1
    /\ \E i \in 1 .. Len(bitfield.fields) :
        \E value \in BitsValues(bitfield.fields[i].nbr_of_bits) :
            LET name == bitfield.fields[i].name
                r == BitfieldDef_serialize_element(bitfield, name, value, buffer, start_offset)
            IN  /\ buffer' = r.buffer
                /\ op' = [kind |-> "serialize_element", name |-> name, value |-> value,
                          raised |-> r.raised, before |-> buffer]
    /\ UNCHANGED <<phase, sys_byteorder, bitfield, enum, sdef, start_offset>>

BitsNext == BitsAdd \/ BitsLoad \/ BitsWrite

SpecBits == BitsInit /\ [][BitsNext]_vars

\* the backing integer of the bitfield held in buf
BackingInt(buf) ==
    FromBytes(Slice(buf, start_offset, start_offset + BitfieldDef_size(bitfield)),
              bitfield.byteorder)

\* the bit positions add assigned to the element called name
ElemBits(name) ==
    LET f == BitfieldDef_field(bitfield, name)
    IN  f.offset .. (f.offset + f.nbr_of_bits - 1)

\* C8: writing one element into a buffer that holds arbitrary bits leaves the
\* decoded value of every other element, every bit not assigned to the written
\* element and every byte outside the bitfield unchanged.
C8_FramePreserved ==
    op.kind = "serialize_element" =>
        /\ \A i \in 1 .. Len(bitfield.fields) :
              bitfield.fields[i].name # op.name =>
                 BitfieldDef_deserialize_element(bitfield, bitfield.fields[i].name,
                                                 buffer, start_offset)
                 = BitfieldDef_deserialize_element(bitfield, bitfield.fields[i].name,
                                                   op.before, start_offset)
        /\ BackingInt(buffer).bits \ ElemBits(op.name)
             = BackingInt(op.before).bits \ ElemBits(op.name)
        /\ Len(buffer) = Len(op.before)
        /\ \A j \in 1 .. Len(buffer) :
              (j <= start_offset \/ j > start_offset + BitfieldDef_size(bitfield))
                 => buffer[j] = op.before[j]

\* -1 written to the signed second element of a buffer of 0xA5 bytes: the
\* buffer changes and the first element still decodes to its old bits
C8_Witness ==
    /\ op.kind = "serialize_element" /\ ~op.raised
    /\ Len(bitfield.fields) = 2 /\ op.name = "b"
    /\ bitfield.fields[2].signed /\ op.value = MinusOne
    /\ op.before[1] = 165 /\ buffer # op.before
    /\ BitfieldDef_deserialize_element(bitfield, "a", buffer, start_offset).value # Zero

-----------------------------------------------------------------------------
(* EnumDef                                                                  *)

\* int.from_bytes(bs, byteorder, signed=signed)
FromBytesSigned(bs, byteorder, signed) ==
    LET u == FromBytes(bs, byteorder)
        n == Len(bs)
    IN  IF signed /\ n > 0 /\ (8 * n - 1) \in u.bits
        THEN [neg |-> TRUE, bits |-> (0 .. (8 * n - 1)) \ u.bits]
        ELSE u

DigitChars == <<"0", "1", "2", "3", "4", "5", "6", "7", "8", "9">>

RECURSIVE MulAdd(_, _, _)
\* decimal digits (least significant first) of m * ds + c
MulAdd(ds, m, c) ==
    IF ds = <<>>
    THEN IF c = 0 THEN <<>> ELSE <<c % 10>> \o MulAdd(<<>>, m, c \div 10)
    ELSE LET t == m * Head(ds) + c
         IN  <<t % 10>> \o MulAdd(Tail(ds), m, t \div 10)

RECURSIVE NatDigits(_, _)
\* decimal digits (least significant first) of the natural S without its k
\* low bytes
NatDigits(S, k) ==
    IF {b \in S : b >= 8 * k} = {}
    THEN <<>>
    ELSE MulAdd(NatDigits(S, k + 1), 256,
                ByteOf({i - 8 * k : i \in {b \in S : b >= 8 * k /\ b < 8 * k + 8}}))

RECURSIVE DigitsStr(_)
DigitsStr(ds) ==
    IF ds = <<>> THEN "" ELSE DigitsStr(Tail(ds)) \o DigitChars[Head(ds) + 1]

\* str(x) of an int, as an f-string formats it
Str(x) ==
    IF x.neg THEN "-" \o DigitsStr(NatDigits(Neg(x).bits, 0))
    ELSE IF x.bits = {} THEN "0"
    ELSE DigitsStr(NatDigits(x.bits, 0))

\* EnumDef.__init__
EnumDef_init(byteorder, size, signed, native) ==
    [byteorder |-> IF byteorder = "native" THEN native ELSE byteorder,
     size |-> size,
     signed |-> signed,
     constants |-> <<>>]

\* name in self.__constants
EnumDef_has(e, name) == \E i \in 1 .. Len(e.constants) : e.constants[i].name = name

\* EnumDef.get_name: [raised, name], the first constant holding value
EnumDef_get_name(e, value) ==
    IF \E i \in 1 .. Len(e.constants) : e.constants[i].value = value
    THEN LET i == CHOOSE k \in 1 .. Len(e.constants) :
                      /\ e.constants[k].value = value
                      /\ \A j \in 1 .. (k - 1) : e.constants[j].value # value
         IN  [raised |-> FALSE, name |-> e.constants[i].name]
    ELSE [raised |-> TRUE, name |-> ""]

\* EnumDef.get_value: [raised, value]
EnumDef_get_value(e, name) ==
    IF EnumDef_has(e, name)
    THEN LET i == CHOOSE k \in 1 .. Len(e.constants) : e.constants[k].name = name
         IN  [raised |-> FALSE, value |-> e.constants[i].value]
    ELSE [raised |-> TRUE, value |-> Zero]

\* int.bit_length(): the number of bits of the magnitude
bit_length(x) ==
    LET a == IF x.neg THEN Neg(x) ELSE x
    IN  IF a.bits = {} THEN 0
        ELSE 1 + (CHOOSE k \in a.bits : \A j \in a.bits : j <= k)

\* _bit_length without the sign bit of a signed enum
EnumDef_bit_length_no_sign_bit(e, value) ==
    bit_length(IF value.neg THEN Inc(value) ELSE value)

\* EnumDef._bit_length
EnumDef_bit_length(e, value) ==
    bit_length(IF value.neg THEN Inc(value) ELSE value) + (IF e.signed THEN 1 ELSE 0)

\* EnumDef._max_bits
EnumDef_max_bits(e) == IF e.size >= 0 THEN e.size * 8 ELSE 64

RECURSIVE MaxLength(_, _, _)
\* the loop of EnumDef.size over the constants from index i on
MaxLength(e, i, max_length) ==
    IF i > Len(e.constants) THEN max_length
    ELSE MaxLength(e, i + 1, Max(max_length, EnumDef_bit_length(e, e.constants[i].value)))

\* EnumDef.size
EnumDef_size(e) ==
    IF e.size >= 0 THEN e.size ELSE (MaxLength(e, 1, 1) + 7) \div 8

\* _round_pow_2
round_pow_2(value) ==
    IF value > 8 THEN 16
    ELSE IF value > 4 THEN 8
    ELSE IF value > 2 THEN 4
    ELSE value

\* EnumDef._largest_member
EnumDef_largest_member(e) == round_pow_2(EnumDef_size(e))

\* the automatic value counting every constant as taken
EnumDef_auto_value_count(e, index) == FromInt(Len(e.constants))

RECURSIVE EnumDef_auto_value(_, _)
\* the loop "while value is None" of EnumDef.add, from index on
EnumDef_auto_value(e, index) ==
    IF EnumDef_get_name(e, index).raised THEN index
    ELSE EnumDef_auto_value(e, Inc(index))

\* add without the check that an unsigned enum takes no negative value
EnumDef_add_no_sign_check(e, name, auto, given) ==
    IF EnumDef_has(e, name) THEN [raised |-> TRUE, e |-> e]
    ELSE LET value == IF auto THEN EnumDef_auto_value(e, Zero) ELSE given
         IN  IF EnumDef_bit_length(e, value) > EnumDef_max_bits(e)
             THEN [raised |-> TRUE, e |-> e]
             ELSE [raised |-> FALSE,
                   e |-> [e EXCEPT !.constants = Append(@, [name |-> name, value |-> value])]]

\* EnumDef.add(name, value), auto standing for "value is None": [raised, e]
EnumDef_add(e, name, auto, given) ==
    IF EnumDef_has(e, name) THEN [raised |-> TRUE, e |-> e]
    ELSE LET value == IF auto THEN EnumDef_auto_value(e, Zero) ELSE given
         IN  IF ~e.signed /\ value.neg THEN [raised |-> TRUE, e |-> e]
             ELSE IF EnumDef_bit_length(e, value) > EnumDef_max_bits(e)
             THEN [raised |-> TRUE, e |-> e]
             ELSE [raised |-> FALSE,
                   e |-> [e EXCEPT !.constants = Append(@, [name |-> name, value |-> value])]]

\* deserialize raising for a value that no constant holds
EnumDef_deserialize_strict(e, buf, offset) ==
    IF Len(buf) < EnumDef_size(e) + offset THEN [raised |-> TRUE, name |-> ""]
    ELSE LET value == FromBytesSigned(Slice(buf, offset, offset + EnumDef_size(e)),
                                      e.byteorder, e.signed)
             r == EnumDef_get_name(e, value)
         IN  [raised |-> r.raised, name |-> r.name]

\* EnumDef.deserialize(buffer, offset): [raised, name]
EnumDef_deserialize(e, buf, offset) ==
    IF Len(buf) < EnumDef_size(e) + offset THEN [raised |-> TRUE, name |-> ""]
    ELSE LET value == FromBytesSigned(Slice(buf, offset, offset + EnumDef_size(e)),
                                      e.byteorder, e.signed)
             r == EnumDef_get_name(e, value)
         IN  [raised |-> FALSE,
              name |-> IF r.raised THEN "__VALUE__" \o Str(value) ELSE r.name]

\* the n-byte two's-complement pattern of x, as a natural
TwosComplement(x, n) ==
    IF x.neg THEN [neg |-> FALSE, bits |-> (0 .. (8 * n - 1)) \ x.bits] ELSE x

\* x does not fit n bytes of the given signedness
IntOverflows(x, n, signed) ==
    IF n = 0 THEN x # Zero
    ELSE IF signed THEN Less(x, Neg(Pow2(8 * n - 1))) \/ ~Less(x, Pow2(8 * n - 1))
    ELSE x.neg \/ ~Less(x, Pow2(8 * n))

\* value.to_bytes(size, byteorder, signed=signed) of EnumDef.serialize
EnumDef_to_bytes(e, value) ==
    ToBytes(TwosComplement(value, EnumDef_size(e)), EnumDef_size(e), e.byteorder)

\* EnumDef.serialize from the looked up value on, r the outcome of get_value
EnumDef_serialize_value(e, r, buf, offset) ==
    IF r.raised THEN [raised |-> TRUE, buffer |-> buf]
    ELSE IF IntOverflows(r.value, EnumDef_size(e), e.signed)
    THEN [raised |-> TRUE, buffer |-> buf]
    ELSE [raised |-> FALSE,
          buffer |-> SetSlice(buf, offset, offset + EnumDef_size(e),
                              EnumDef_to_bytes(e, r.value))]

\* EnumDef.serialize into a given buffer
EnumDef_serialize(e, data, buf, offset) ==
    EnumDef_serialize_value(e, EnumDef_get_value(e, data), buf, offset)

\* EnumDef.serialize(data): the bytes value.to_bytes returns
EnumDef_serialize_new(e, data) == EnumDef_serialize(e, data, ZeroBytes(EnumDef_size(e)), 0)

-----------------------------------------------------------------------------
(* SpecEnum: an EnumDef built by add, with and without a value, and buffers *)
(* decoded by deserialize                                                   *)

\* the number of constants added to the enum
MaxConsts == 3

EnumNames == <<"a", "b", "c", "d", "e">>

\* the values given to add
EnumValues == {FromInt(-129), MinusOne, Zero, FromInt(2), FromInt(128), Pow2(64)}

\* the first byte of a decoded buffer
EnumBytes == {0, 2, 127, 255}

EnumInit ==
    /\ phase = "define"
    /\ sys_byteorder \in {"little", "big"}
    /\ \E size \in {-1, 1}, signed \in BOOLEAN :
        enum = EnumDef_init("native", size, signed, sys_byteorder)
    /\ bitfield = NoBitfield
    /\ sdef = NoStruct
    /\ buffer = <<>>
    /\ start_offset = 0
    /\ nops = 0
    /\ op = [kind |-> "init"]

\* enum.add(name) and enum.add(name, value): a new name, or the first one again
EnumAdd ==
    /\ phase = "define"
    /\ Len(enum.constants) < MaxConsts
    /\ \E k \in {1, Len(enum.constants) + 1}, auto \in BOOLEAN, given \in EnumValues :
        /\ auto => given = Zero
        /\ LET r == EnumDef_add(enum, EnumNames[k], auto, given)
           IN  /\ enum' = r.e
               /\ op' = [kind |-> "add", name |-> EnumNames[k], auto |-> auto,
                         given |-> given, raised |-> r.raised, before |-> enum.constants]
    /\ UNCHANGED <<phase, sys_byteorder, bitfield, sdef, buffer, start_offset, nops>>

\* enum.deserialize(buffer, offset) of a caller's buffer
EnumDeserialize ==
    /\ phase = "define"
    /\ phase' = "run"
    /\ \E o \in {0, 1}, first \in EnumBytes, short \in BOOLEAN :
        LET rest == IF o = 0 THEN 0 ELSE 255
            n == o + EnumDef_size(enum) + (IF short THEN -1 ELSE Slack)
            buf == [j \in 1 .. n |-> IF j = o + 1 THEN first ELSE rest]
            r == EnumDef_deserialize(enum, buf, o)
        IN  /\ buffer' = buf
            /\ start_offset' = o
            /\ op' = [kind |-> "deserialize", raised |-> r.raised, name |-> r.name]
    /\ UNCHANGED <<sys_byteorder, bitfield, enum, sdef, nops>>

\* what "buffer = enum.serialize(name)" leaves behind, r its outcome
EnumSerialized(name, r) ==
    /\ op' = [kind |-> "serialize", name |-> name, raised |-> r.raised]
    /\ buffer' = IF r.raised THEN buffer ELSE r.buffer

\* buffer = enum.serialize(name) for the first name or one not yet added
EnumSerialize ==
    /\ phase = "define"
    /\ phase' = "run"
    /\ \E k \in {1, Len(enum.constants) + 1} :
        EnumSerialized(EnumNames[k], EnumDef_serialize_new(enum, EnumNames[k]))
    /\ UNCHANGED <<sys_byteorder, bitfield, enum, sdef, start_offset, nops>>

EnumNext == EnumAdd \/ EnumDeserialize \/ EnumSerialize

SpecEnum == EnumInit /\ [][EnumNext]_vars

\* the integer the bytes of the enum at start_offset stand for
EnumDecoded ==
    FromBytesSigned(Slice(buffer, start_offset, start_offset + EnumDef_size(enum)),
                    enum.byteorder, enum.signed)

\* the values of the constants in the sequence cs
ValuesOf(cs) == {cs[i].value : i \in 1 .. Len(cs)}

AddedValue == enum.constants[Len(enum.constants)].value

\* C10: an add without a value that succeeds gives the name the smallest
\* non-negative integer that no earlier constant holds; it fails only for a
\* name that exists or when that integer does not fit the size ceiling.
C10_AutoValueIsSmallestFree ==
    (op.kind = "add" /\ op.auto) =>
        \E k \in 0 .. Len(op.before) :
            /\ FromInt(k) \notin ValuesOf(op.before)
            /\ \A j \in 0 .. (k - 1) : FromInt(j) \in ValuesOf(op.before)
            /\ IF op.raised
               THEN /\ enum.constants = op.before
                    /\ \/ op.name \in {op.before[i].name : i \in 1 .. Len(op.before)}
                       \/ EnumDef_bit_length(enum, FromInt(k)) > EnumDef_max_bits(enum)
               ELSE /\ Len(enum.constants) = Len(op.before) + 1
                    /\ enum.constants[Len(enum.constants)].name = op.name
                    /\ AddedValue = FromInt(k)

\* after explicit values 2 and 0, add without a value assigns 1
C10_Witness ==
    /\ op.kind = "add" /\ op.auto /\ ~op.raised
    /\ ValuesOf(op.before) = {Zero, FromInt(2)}
    /\ AddedValue = One

\* the number of bits of the two's-complement magnitude of v: the least n
\* with -2^n <= v < 2^n
TwosComplementBits(v) ==
    CHOOSE n \in 0 .. 80 :
        /\ Leq(Neg(Pow2(n)), v) /\ Less(v, Pow2(n))
        /\ \A m \in 0 .. (n - 1) : ~(Leq(Neg(Pow2(m)), v) /\ Less(v, Pow2(m)))

\* the enum as it was before the add that op records
EnumBefore == [enum EXCEPT !.constants = op.before]

\* add(name, value) was called with a name that exists, a negative value for
\* an unsigned enum, or a value that needs more bits than the size allows
AddMustRaise ==
    \/ op.name \in {op.before[i].name : i \in 1 .. Len(op.before)}
    \/ ~enum.signed /\ op.given.neg
    \/ TwosComplementBits(op.given) + (IF enum.signed THEN 1 ELSE 0)
         > (IF enum.size >= 0 THEN 8 * enum.size ELSE 64)

\* C11: add(name, value) raises and leaves the constants and size() of the
\* enum unchanged when the name already exists, when the value is negative
\* and the enum is unsigned, or when the two's-complement bit length of the
\* value (plus one if the enum is signed) exceeds 8 x the forced size, or 64
\* when no size is forced.
C11_AddRaisesUnchanged ==
    (op.kind = "add" /\ ~op.auto /\ AddMustRaise) =>
        /\ op.raised
        /\ enum.constants = op.before
        /\ EnumDef_size(enum) = EnumDef_size(EnumBefore)

\* -129 needs 9 bits in a signed enum forced to one byte: add raised, and the
\* two constants added before are all the enum holds
C11_Witness ==
    /\ op.kind = "add" /\ ~op.auto /\ op.raised
    /\ enum.signed /\ enum.size = 1
    /\ op.given = FromInt(-129)
    /\ op.name \notin {op.before[i].name : i \in 1 .. Len(op.before)}
    /\ Len(enum.constants) = 2 /\ enum.constants = op.before

\* the integer v can be encoded in n bytes of the given signedness
FitsBytes(v, n, signed) ==
    IF signed THEN Leq(Neg(Pow2(8 * n - 1)), v) /\ Less(v, Pow2(8 * n - 1))
    ELSE ~v.neg /\ Less(v, Pow2(8 * n))

\* every constant of the enum can be encoded in n bytes
AllFit(n) ==
    \A i \in 1 .. Len(enum.constants) : FitsBytes(enum.constants[i].value, n, enum.signed)

\* the largest required bit length over the constants, 0 when there is none
RequiredBits ==
    LET bs == {0} \cup {TwosComplementBits(enum.constants[i].value)
                          + (IF enum.signed THEN 1 ELSE 0) : i \in 1 .. Len(enum.constants)}
    IN  CHOOSE b \in bs : \A c \in bs : c <= b

-----------------------------------------------------------------------------
(* BasicTypeDef, StringDef, ArrayDef and StructDef: sizes and layout        *)

\* name.startswith(prefix)
startswith(name, prefix) ==
    Len(name) >= Len(prefix) /\ SubSeq(name, 1, Len(prefix)) = prefix

\* the integer and boolean keys of _TYPE (the float kinds are not modelled)
TypeNames ==
    {"int8", "uint8", "bool8", "int16", "uint16", "bool16",
     "int32", "uint32", "bool32", "int64", "uint64", "bool64"}

\* _TYPE[datatype]["bytes"]
TypeBytes(datatype) ==
    CASE datatype \in {"int8", "uint8", "bool8"} -> 1
      [] datatype \in {"int16", "uint16", "bool16"} -> 2
      [] datatype \in {"int32", "uint32", "bool32"} -> 4
      [] datatype \in {"int64", "uint64", "bool64"} -> 8

\* _TYPE[datatype]["format"] is one of the signed formats b, h, i, q
TypeSigned(datatype) == datatype \in {"int8", "int16", "int32", "int64"}

\* BasicTypeDef.__init__
BasicTypeDef(datatype, byteorder) ==
    [kind |-> "basic", type |-> datatype, byteorder |-> byteorder]

\* StringDef.__init__
StringDef(length) == [kind |-> "string", length |-> length]

\* ArrayDef.__init__
ArrayDef(element_type, length) ==
    [kind |-> "array", type |-> element_type, length |-> length]

\* a BitfieldDef, EnumDef or StructDef object passed to add as the datatype
BitfieldType(bf) == [kind |-> "bitfield", def |-> bf]

EnumType(e) == [kind |-> "enum", def |-> e]

StructType(sd) == [kind |-> "struct", def |-> sd]

\* a type name passed to add as the datatype
TypeName(name) == [kind |-> "name", name |-> name]

\* BitfieldDef._largest_member
BitfieldDef_largest_member(bf) == round_pow_2(BitfieldDef_size(bf))

\* StructDef.__init__
StructDef_init(default_byteorder, alignment, union) ==
    [default_byteorder |-> default_byteorder, alignment |-> alignment, union |-> union,
     pad_count |-> 0, fields |-> <<>>, fields_same_level |-> <<>>, pad_end_length |-> 0]

RECURSIVE Type_size(_)
RECURSIVE Type_largest_member(_)
RECURSIVE SizeLoop(_, _, _, _)

\* "if not name.startswith('__pad') and elem_size > largest_size"
LargestSize(name, elem_size, largest_size) ==
    IF ~startswith(name, "__pad") /\ elem_size > largest_size THEN elem_size ELSE largest_size

\* the loop of StructDef.size over the fields from index i on
SizeLoop(fields, i, all_elem_size, largest_size) ==
    IF i > Len(fields)
    THEN [all_elem_size |-> all_elem_size, largest_size |-> largest_size]
    ELSE SizeLoop(fields, i + 1, all_elem_size + Type_size(fields[i].type),
                  LargestSize(fields[i].name, Type_size(fields[i].type), largest_size))

\* StructDef.size, the union taking the length the end padding array holds
StructDef_size(sd) ==
    IF sd.union THEN SizeLoop(sd.fields, 1, 0, 0).largest_size + sd.pad_end_length
    ELSE SizeLoop(sd.fields, 1, 0, 0).all_elem_size

\* the largest element of a set of naturals, 0 for the empty set
SetMax(S) == IF S = {} THEN 0 ELSE CHOOSE m \in S : \A k \in S : k <= m

\* StructDef._largest_member
StructDef_largest_member(sd) ==
    SetMax({Type_largest_member(sd.fields[i].type) : i \in 1 .. Len(sd.fields)})

\* size() of a type object
Type_size(t) ==
    CASE t.kind = "basic" -> TypeBytes(t.type)
      [] t.kind = "string" -> t.length
      [] t.kind = "array" -> t.length * Type_size(t.type)
      [] t.kind = "bitfield" -> BitfieldDef_size(t.def)
      [] t.kind = "enum" -> EnumDef_size(t.def)
      [] t.kind = "struct" -> StructDef_size(t.def)

\* _largest_member() of a type object
Type_largest_member(t) ==
    CASE t.kind = "basic" -> TypeBytes(t.type)
      [] t.kind = "string" -> 1
      [] t.kind = "array" -> Type_largest_member(t.type)
      [] t.kind = "bitfield" -> BitfieldDef_largest_member(t.def)
      [] t.kind = "enum" -> EnumDef_largest_member(t.def)
      [] t.kind = "struct" -> StructDef_largest_member(t.def)

\* _get_padding divides by zero
get_padding_raises(alignment, next_element_size) ==
    alignment # 1 /\ Min(alignment, next_element_size) = 0

\* _get_padding padding to the alignment whatever the element is
get_padding_to_alignment(alignment, current_size, next_element_size) ==
    IF alignment = 1 \/ current_size % alignment = 0 THEN 0
    ELSE alignment - (current_size % alignment)

\* _get_padding
get_padding(alignment, current_size, next_element_size) ==
    IF alignment = 1 THEN 0
    ELSE LET elem_size == Min(alignment, next_element_size)
             remainder == current_size % elem_size
         IN  IF remainder = 0 THEN 0 ELSE elem_size - remainder

\* StructDef._normalize_shape for a shape given as a tuple: [raised, shape]
normalize_shape(length, shape) ==
    IF \E i \in 1 .. Len(shape) : shape[i] < 1 THEN [raised |-> TRUE, shape |-> shape]
    ELSE IF length = 1 THEN [raised |-> FALSE, shape |-> shape]
    ELSE IF length < 1 THEN [raised |-> TRUE, shape |-> shape]
    ELSE [raised |-> FALSE, shape |-> Append(shape, length)]

\* d[name] = item on an ordered dictionary kept as a sequence of records
DictSet(d, name, item) ==
    IF \E i \in 1 .. Len(d) : d[i].name = name
    THEN [i \in 1 .. Len(d) |-> IF d[i].name = name THEN item ELSE d[i]]
    ELSE Append(d, item)

\* d.pop(name, "")
DictPop(d, name) == SelectSeq(d, LAMBDA f : f.name # name)

\* name in d
DictHas(d, name) == \E i \in 1 .. Len(d) : d[i].name = name

\* d[name]
DictGet(d, name) == d[CHOOSE i \in 1 .. Len(d) : d[i].name = name]

RECURSIVE WrapShape(_, _, _)
\* "for dim in reversed(shape): datatype = ArrayDef(datatype, dim)" from
\* dimension i down
WrapShape(datatype, shape, i) ==
    IF i < 1 THEN datatype ELSE WrapShape(ArrayDef(datatype, shape[i]), shape, i - 1)

RECURSIVE SameLevelLoop(_, _, _, _)
\* "self.__fields_same_level[subname] = name" for the subnames from index i on
SameLevelLoop(d, subnames, i, name) ==
    IF i > Len(subnames) THEN d
    ELSE SameLevelLoop(DictSet(d, subnames[i], [name |-> subnames[i], parent |-> name]),
                       subnames, i + 1, name)

\* self.__pad_byte
PadByte(sd) == BasicTypeDef("uint8", sd.default_byteorder)

\* f"__pad_{self.__pad_count}"
PadName(n) == "__pad_" \o Str(FromInt(n))

\* the padding field stored in front of an element, and the count it advances
InsertPadding(sd, offset, padding) ==
    [sd EXCEPT !.fields = DictSet(@, PadName(sd.pad_count),
                                  [name |-> PadName(sd.pad_count),
                                   type |-> ArrayDef(PadByte(sd), padding),
                                   same_level |-> FALSE,
                                   offset |-> offset]),
               !.pad_count = @ + 1]

\* "self.__fields[name] = {...}": [raised, sd, offset]
StoreElement(sd, datatype, name, same_level, offset) ==
    [raised |-> FALSE,
     sd |-> [sd EXCEPT !.fields = DictSet(@, name, [name |-> name, type |-> datatype,
                                                    same_level |-> same_level,
                                                    offset |-> offset])],
     offset |-> offset]

\* the element of a struct stored behind the padding it needs
PlaceElement(sd, datatype, name, same_level, size, padding) ==
    IF padding > 0
    THEN StoreElement(InsertPadding(sd, size, padding), datatype, name, same_level,
                      size + padding)
    ELSE StoreElement(sd, datatype, name, same_level, size)

\* the element part of add on the definition whose end padding is removed
AddElementPopped(popped, datatype, name, same_level) ==
    IF popped.union THEN StoreElement(popped, datatype, name, same_level, 0)
    ELSE IF get_padding_raises(popped.alignment, Type_largest_member(datatype))
    THEN [raised |-> TRUE, sd |-> popped, offset |-> 0]
    ELSE PlaceElement(popped, datatype, name, same_level, StructDef_size(popped),
                      get_padding(popped.alignment, StructDef_size(popped),
                                  Type_largest_member(datatype)))

\* The element part of StructDef.add: the end padding is removed, the padding
\* between the elements is inserted (struct only) and the element is stored.
\* [raised, sd, offset]
AddElement(sd, datatype, name, same_level) ==
    AddElementPopped([sd EXCEPT !.fields = DictPop(@, "__pad_end")], datatype, name,
                     same_level)

\* the end padding field and the length of the end padding array
SetEndPadding(sd, datatype, offset, padding) ==
    IF padding > 0
    THEN [raised |-> FALSE,
          sd |-> [sd EXCEPT
                    !.pad_end_length = padding,
                    !.fields = DictSet(@, "__pad_end",
                                       [name |-> "__pad_end",
                                        type |-> ArrayDef(PadByte(sd), padding),
                                        same_level |-> FALSE,
                                        offset |-> offset + Type_size(datatype)])]]
    ELSE [raised |-> FALSE, sd |-> sd]

\* The end padding part of StructDef.add, after the element is stored at
\* offset: [raised, sd]
AddEndPadding(sd, datatype, offset) ==
    IF get_padding_raises(sd.alignment, StructDef_largest_member(sd))
    THEN [raised |-> TRUE, sd |-> sd]
    ELSE SetEndPadding(sd, datatype, offset,
                       get_padding(sd.alignment, StructDef_size(sd),
                                   StructDef_largest_member(sd)))

\* the same_level part of add, e the outcome of the end padding part
AddSameLevel(e, datatype, name, same_level) ==
    IF e.raised \/ ~same_level THEN e
    ELSE [raised |-> FALSE,
          sd |-> [e.sd EXCEPT !.fields_same_level =
                    SameLevelLoop(@, BitfieldDef_element_names(datatype.def), 1, name)]]

\* add from the end padding part on, a the outcome of the element part
AddAfterElement(a, datatype, name, same_level) ==
    IF a.raised THEN [raised |-> TRUE, sd |-> a.sd]
    ELSE AddSameLevel(AddEndPadding(a.sd, datatype, a.offset), datatype, name, same_level)

\* add of the type object that "Create objects when necessary" made
AddType(sd, datatype, name, same_level) ==
    AddAfterElement(AddElement(sd, datatype, name, same_level), datatype, name, same_level)

\* the type made with the dimensions taken in reverse: the first fastest
MakeType_first_fastest(sd, datatype, byteorder, shape) ==
    IF datatype.kind = "name" /\ datatype.name = "utf-8"
    THEN IF shape = <<>> THEN StringDef(1)
         ELSE WrapShape(StringDef(shape[Len(shape)]), shape, Len(shape) - 1)
    ELSE IF datatype.kind = "name"
    THEN WrapShape(BasicTypeDef(datatype.name,
                                IF byteorder = "" THEN sd.default_byteorder ELSE byteorder),
                   [k \in 1 .. Len(shape) |-> shape[Len(shape) + 1 - k]], Len(shape))
    ELSE WrapShape(datatype, shape, Len(shape))

\* "Create objects when necessary": the type object of the element
MakeType(sd, datatype, byteorder, shape) ==
    IF datatype.kind = "name" /\ datatype.name = "utf-8"
    THEN IF shape = <<>> THEN StringDef(1)
         ELSE WrapShape(StringDef(shape[Len(shape)]), shape, Len(shape) - 1)
    ELSE IF datatype.kind = "name"
    THEN WrapShape(BasicTypeDef(datatype.name,
                                IF byteorder = "" THEN sd.default_byteorder ELSE byteorder),
                   shape, Len(shape))
    ELSE WrapShape(datatype, shape, Len(shape))

\* add from the sanity checks on, ns the outcome of _normalize_shape
AddNormalized(sd, datatype, name, byteorder, same_level, ns) ==
    IF \/ ns.raised
       \/ DictHas(sd.fields, name)
       \/ byteorder \notin {"", "native", "little", "big"}
       \/ same_level /\ Len(ns.shape) # 0
       \/ same_level /\ datatype.kind # "bitfield"
       \/ datatype.kind = "name" /\ datatype.name # "utf-8" /\ datatype.name \notin TypeNames
       \/ datatype.kind = "object"
    THEN [raised |-> TRUE, sd |-> sd]
    ELSE AddType(sd, MakeType(sd, datatype, byteorder, ns.shape), name, same_level)

\* StructDef.add(datatype, name, length, byteorder, same_level, shape): [raised, sd]
StructDef_add(sd, datatype, name, length, byteorder, same_level, shape) ==
    AddNormalized(sd, datatype, name, byteorder, same_level, normalize_shape(length, shape))

\* _normalize_shape for a shape given as one int, which is not checked
normalize_shape_int(length, shape) ==
    IF length = 1 THEN [raised |-> FALSE, shape |-> <<shape>>]
    ELSE IF length < 1 THEN [raised |-> TRUE, shape |-> <<shape>>]
    ELSE [raised |-> FALSE, shape |-> <<shape, length>>]

\* StructDef.add(..., shape=n) for an int n: [raised, sd]
StructDef_add_int_shape(sd, datatype, name, length, byteorder, same_level, shape) ==
    AddNormalized(sd, datatype, name, byteorder, same_level,
                  normalize_shape_int(length, shape))

\* the index of the field called name
FieldIndex(fields, name) == CHOOSE i \in 1 .. Len(fields) : fields[i].name = name

\* "for key in keys: del self.__fields[key]; if key == name: break", keys
\* being reversed unless to_criteria
RemoveKeys(fields, name, to_criteria) ==
    IF to_criteria THEN SubSeq(fields, FieldIndex(fields, name) + 1, Len(fields))
    ELSE SubSeq(fields, 1, FieldIndex(fields, name) - 1)

\* "field['offset'] -= adjust_offset" for every field
AdjustOffsets(fields, adjust_offset) ==
    [i \in 1 .. Len(fields) |-> [fields[i] EXCEPT !.offset = @ - adjust_offset]]

\* StructDef._remove_from_or_to that leaves the offsets as they are
StructDef_remove_from_or_to_no_adjust(sd, name, to_criteria) ==
    IF ~DictHas(sd.fields, name) THEN [raised |-> TRUE, sd |-> sd]
    ELSE [raised |-> FALSE,
          sd |-> [sd EXCEPT !.fields = RemoveKeys(sd.fields, name, to_criteria)]]

\* StructDef._remove_from_or_to: [raised, sd]
StructDef_remove_from_or_to(sd, name, to_criteria) ==
    IF ~DictHas(sd.fields, name) THEN [raised |-> TRUE, sd |-> sd]
    ELSE IF Len(RemoveKeys(sd.fields, name, to_criteria)) > 0
    THEN [raised |-> FALSE,
          sd |-> [sd EXCEPT !.fields =
                      AdjustOffsets(RemoveKeys(sd.fields, name, to_criteria),
                                    RemoveKeys(sd.fields, name, to_criteria)[1].offset)]]
    ELSE [raised |-> FALSE, sd |-> [sd EXCEPT !.fields = <<>>]]

\* StructDef.remove_from
StructDef_remove_from(sd, name) == StructDef_remove_from_or_to(sd, name, FALSE)

\* StructDef.remove_to
StructDef_remove_to(sd, name) == StructDef_remove_from_or_to(sd, name, TRUE)

\* StructDef._element_names
StructDef_element_names(sd) ==
    LET Sub(f) == IF f.same_level
                  THEN LET own == SelectSeq(sd.fields_same_level, LAMBDA x : x.parent = f.name)
                       IN  [i \in 1 .. Len(own) |-> own[i].name]
                  ELSE <<f.name>>
        Cat[i \in 0 .. Len(sd.fields)] ==
            IF i = 0 THEN <<>> ELSE Cat[i - 1] \o Sub(sd.fields[i])
    IN  Cat[Len(sd.fields)]

-----------------------------------------------------------------------------
(* SpecLayout: a struct or union StructDef laid out by a sequence of add    *)
(* calls                                                                    *)

\* the number of elements added to the struct
MaxFields == 3

FieldNames == <<"a", "b", "c", "d", "e", "f">>

Alignments == {1, 2, 4, 8}

Add1(sd, datatype, name) == StructDef_add(sd, datatype, name, 1, "", FALSE, <<>>).sd

\* a nested struct of a uint8 and a uint32 aligned to 4: size 8
InnerStruct ==
    StructType(Add1(Add1(StructDef_init("native", 4, FALSE), TypeName("uint8"), "x"),
                    TypeName("uint32"), "y"))

\* a bitfield forced to 3 bytes
Bitfield3 == BitfieldType(BitfieldDef_add(BitfieldDef_init("native", 3, "little"),
                                          "p", 5, FALSE).bf)

\* a bitfield that has no element yet
EmptyBitfield == BitfieldType(BitfieldDef_init("native", -1, "little"))

\* the arguments (datatype, length, shape) of the add calls
LayoutTypes ==
    {[datatype |-> TypeName("int8"), length |-> 1, shape |-> <<>>],
     [datatype |-> TypeName("uint16"), length |-> 1, shape |-> <<>>],
     [datatype |-> TypeName("int32"), length |-> 1, shape |-> <<>>],
     [datatype |-> TypeName("uint64"), length |-> 1, shape |-> <<>>],
     [datatype |-> TypeName("utf-8"), length |-> 3, shape |-> <<>>],
     [datatype |-> TypeName("uint16"), length |-> 1, shape |-> <<3>>],
     [datatype |-> InnerStruct, length |-> 1, shape |-> <<>>],
     [datatype |-> Bitfield3, length |-> 1, shape |-> <<>>],
     [datatype |-> EmptyBitfield, length |-> 1, shape |-> <<>>]}

NonPad(f) == ~startswith(f.name, "__pad")

\* the elements of the struct that are not padding
Elements(sd) == SelectSeq(sd.fields, NonPad)

LayoutInit ==
    /\ phase = "define"
    /\ sys_byteorder \in {"little", "big"}
    /\ \E alignment \in Alignments, union \in BOOLEAN :
        sdef = StructDef_init("native", alignment, union)
    /\ bitfield = NoBitfield
    /\ enum = NoEnum
    /\ buffer = <<>>
    /\ start_offset = 0
    /\ nops = 0
    /\ op = [kind |-> "init"]

\* sdef.add(datatype, name, length, shape=shape): a new name, or the first again
LayoutAdd ==
    /\ phase = "define"
    /\ Len(Elements(sdef)) < MaxFields
    /\ \E k \in {1, Len(Elements(sdef)) + 1}, t \in LayoutTypes :
        LET r == StructDef_add(sdef, t.datatype, FieldNames[k], t.length, "", FALSE, t.shape)
        IN  /\ sdef' = r.sd
            /\ op' = [kind |-> "add", raised |-> r.raised]
    /\ UNCHANGED <<phase, sys_byteorder, bitfield, enum, buffer, start_offset, nops>>

LayoutNext == LayoutAdd

SpecLayout == LayoutInit /\ [][LayoutNext]_vars

\* where the element before field i ends, 0 when field i is the first element
PrevEnd(sd, i) ==
    LET P == {j \in 1 .. (i - 1) : NonPad(sd.fields[j])}
    IN  IF P = {} THEN 0
        ELSE LET j == CHOOSE k \in P : \A m \in P : m <= k
             IN  sd.fields[j].offset + Type_size(sd.fields[j].type)

\* the sizes of the padding fields between the element before field i and field i
PadsBefore(sd, i) ==
    LET P == {j \in 1 .. (i - 1) : NonPad(sd.fields[j])}
        first == IF P = {} THEN 1 ELSE 1 + (CHOOSE k \in P : \A m \in P : m <= k)
    IN  [j \in 1 .. (i - first) |-> Type_size(sd.fields[first + j - 1].type)]

\* C3: in a struct every element starts at a multiple of min(A, m), m its
\* largest member, and the padding in front of it is a single padding field of
\* the smallest size that achieves this, none when that size is 0.
C3_ElementAlignment ==
    ~sdef.union =>
        \A i \in 1 .. Len(sdef.fields) :
            LET f == sdef.fields[i]
                e == Min(sdef.alignment, Type_largest_member(f.type))
                pad == f.offset - PrevEnd(sdef, i)
            IN  (NonPad(f) /\ e > 0) =>
                    /\ f.offset % e = 0
                    /\ pad >= 0 /\ pad < e
                    /\ sdef.alignment = 1 => pad = 0
                    /\ PadsBefore(sdef, i) = IF pad = 0 THEN <<>> ELSE <<pad>>

\* alignment 4, int8 then int32: 3 padding bytes in between, size 8
C3_Witness ==
    /\ ~sdef.union /\ sdef.alignment = 4 /\ op.kind = "add" /\ ~op.raised
    /\ Len(sdef.fields) = 3
    /\ sdef.fields[1].type = BasicTypeDef("int8", "native") /\ sdef.fields[1].offset = 0
    /\ sdef.fields[2].name = "__pad_0" /\ Type_size(sdef.fields[2].type) = 3
    /\ sdef.fields[3].type = BasicTypeDef("int32", "native")
    /\ sdef.fields[3].offset = 4
    /\ StructDef_size(sdef) = 8

\* the size of the end padding field, 0 when there is none
TrailingPad(sd) ==
    IF sd.fields # <<>> /\ sd.fields[Len(sd.fields)].name = "__pad_end"
    THEN Type_size(sd.fields[Len(sd.fields)].type)
    ELSE 0

\* C4: a struct's size() is a multiple of min(A, _largest_member()) and its end
\* padding is the smallest that makes it one.
C4_SizeInvariant ==
    LET e == Min(sdef.alignment, StructDef_largest_member(sdef))
    IN  (~sdef.union /\ e > 0) =>
            /\ StructDef_size(sdef) % e = 0
            /\ TrailingPad(sdef) < e

\* a struct aligned to 4 of an int32 and an int8, left at size 5 by an add that
\* raised
C4_Witness ==
    /\ ~sdef.union /\ sdef.alignment = 4 /\ op.kind = "add" /\ op.raised
    /\ Len(sdef.fields) = 2
    /\ sdef.fields[1].type = BasicTypeDef("int32", "native")
    /\ sdef.fields[2].type = BasicTypeDef("int8", "native")
    /\ StructDef_size(sdef) = 5

\* the size of the largest element of the union
LargestElement(sd) ==
    LET S == {Type_size(sd.fields[i].type) : i \in {j \in 1 .. Len(sd.fields) : NonPad(sd.fields[j])}}
    IN  IF S = {} THEN 0 ELSE CHOOSE m \in S : \A k \in S : k <= m

\* C5: a union's size() is the size of its largest element plus the smallest
\* end padding that makes it a multiple of min(A, _largest_member()).
C5_UnionSize ==
    LET e == Min(sdef.alignment, StructDef_largest_member(sdef))
    IN  (sdef.union /\ e > 0) =>
            /\ StructDef_size(sdef) % e = 0
            /\ StructDef_size(sdef) >= LargestElement(sdef)
            /\ StructDef_size(sdef) < LargestElement(sdef) + e

\* a union aligned to 4 of a 3-byte bitfield and an int32: size 7, not 4
C5_Witness ==
    /\ sdef.union /\ sdef.alignment = 4 /\ op.kind = "add" /\ ~op.raised
    /\ Len(Elements(sdef)) = 2
    /\ Elements(sdef)[1].type = Bitfield3
    /\ Elements(sdef)[2].type = BasicTypeDef("int32", "native")
    /\ StructDef_size(sdef) = 7

-----------------------------------------------------------------------------
(* serialize and deserialize of the type objects.  Each returns a record    *)
(* [raised, buffer] or [raised, value]; a dictionary is a function on the   *)
(* names it holds, a list is a sequence.                                    *)

\* the byte order a struct format resolves to ("=" is the platform's order)
ResolveOrder(byteorder) == IF byteorder = "native" THEN sys_byteorder ELSE byteorder

\* the integer struct.pack_into packs: True and False pack as 1 and 0
AsInt(t, data) ==
    IF startswith(t.type, "bool") THEN (IF data THEN One ELSE Zero) ELSE data

\* BasicTypeDef.serialize into a given buffer
BasicTypeDef_serialize(t, data, buf, offset) ==
    IF Len(buf) < offset + TypeBytes(t.type) THEN [raised |-> TRUE, buffer |-> buf]
    ELSE IF IntOverflows(AsInt(t, data), TypeBytes(t.type), TypeSigned(t.type))
    THEN [raised |-> TRUE, buffer |-> buf]
    ELSE [raised |-> FALSE,
          buffer |-> SetSlice(buf, offset, offset + TypeBytes(t.type),
                              ToBytes(TwosComplement(AsInt(t, data), TypeBytes(t.type)),
                                      TypeBytes(t.type), ResolveOrder(t.byteorder)))]

\* the value BasicTypeDef.deserialize makes of the unpacked integer
FromUnpacked(t, value) ==
    IF startswith(t.type, "bool") THEN value # Zero ELSE value

\* BasicTypeDef.deserialize
BasicTypeDef_deserialize(t, buf, offset) ==
    IF Len(buf) < offset + TypeBytes(t.type) THEN [raised |-> TRUE, value |-> Zero]
    ELSE [raised |-> FALSE,
          value |-> FromUnpacked(t, FromBytesSigned(Slice(buf, offset, offset + TypeBytes(t.type)),
                                                    ResolveOrder(t.byteorder),
                                                    TypeSigned(t.type)))]

\* the UTF-8 bytes of one code point
Utf8EncodeChar(c) ==
    IF c < 128 THEN <<c>>
    ELSE IF c < 2048 THEN <<192 + (c \div 64), 128 + (c % 64)>>
    ELSE IF c < 65536
    THEN <<224 + (c \div 4096), 128 + ((c \div 64) % 64), 128 + (c % 64)>>
    ELSE <<240 + (c \div 262144), 128 + ((c \div 4096) % 64), 128 + ((c \div 64) % 64),
           128 + (c % 64)>>

RECURSIVE Utf8Bytes(_)
\* the UTF-8 bytes of a string, given as the sequence of its code points
Utf8Bytes(data) ==
    IF data = <<>> THEN <<>> ELSE Utf8EncodeChar(Head(data)) \o Utf8Bytes(Tail(data))

\* data.encode("utf-8"): [raised, bytes]; a surrogate cannot be encoded
Utf8Encode(data) ==
    IF \E i \in 1 .. Len(data) : data[i] \in 55296 .. 57343
    THEN [raised |-> TRUE, bytes |-> <<>>]
    ELSE [raised |-> FALSE, bytes |-> Utf8Bytes(data)]

\* the length of the UTF-8 sequence the byte b leads, 0 if it leads none
Utf8SeqLen(b) ==
    IF b < 128 THEN 1
    ELSE IF b \in 194 .. 223 THEN 2
    ELSE IF b \in 224 .. 239 THEN 3
    ELSE IF b \in 240 .. 244 THEN 4
    ELSE 0

\* the second byte b2 after the lead b is neither overlong, a surrogate nor
\* beyond U+10FFFF
Utf8SecondOk(b, b2) ==
    CASE b = 224 -> b2 >= 160
      [] b = 237 -> b2 <= 159
      [] b = 240 -> b2 >= 144
      [] b = 244 -> b2 <= 143
      [] OTHER -> TRUE

\* a valid sequence of n bytes starts at index i of bs
Utf8ValidAt(bs, i, n) ==
    /\ n > 0
    /\ i + n - 1 <= Len(bs)
    /\ \A j \in 1 .. (n - 1) : bs[i + j] \in 128 .. 191
    /\ n > 1 => Utf8SecondOk(bs[i], bs[i + 1])

\* the code point of the valid sequence of n bytes at index i of bs
Utf8CodePoint(bs, i, n) ==
    CASE n = 1 -> bs[i]
      [] n = 2 -> (bs[i] - 192) * 64 + (bs[i + 1] - 128)
      [] n = 3 -> (bs[i] - 224) * 4096 + (bs[i + 1] - 128) * 64 + (bs[i + 2] - 128)
      [] n = 4 -> (bs[i] - 240) * 262144 + (bs[i + 1] - 128) * 4096
                  + (bs[i + 2] - 128) * 64 + (bs[i + 3] - 128)

RECURSIVE Utf8DecodeFrom(_, _, _)
\* bs.decode("utf-8") from index i on: [raised, value]
Utf8DecodeFrom(bs, i, result) ==
    IF i > Len(bs) THEN [raised |-> FALSE, value |-> result]
    ELSE IF ~Utf8ValidAt(bs, i, Utf8SeqLen(bs[i])) THEN [raised |-> TRUE, value |-> result]
    ELSE Utf8DecodeFrom(bs, i + Utf8SeqLen(bs[i]),
                        Append(result, Utf8CodePoint(bs, i, Utf8SeqLen(bs[i]))))

\* bs.decode("utf-8")
Utf8Decode(bs) == Utf8DecodeFrom(bs, 1, <<>>)

\* StringDef.serialize from the encoded bytes on, e the outcome of encode
StringDef_serialize_bytes(t, e, buf, offset) ==
    IF e.raised \/ Len(e.bytes) > t.length THEN [raised |-> TRUE, buffer |-> buf]
    ELSE [raised |-> FALSE,
          buffer |-> [j \in 1 .. Len(buf) |->
                        IF j - offset \in 1 .. Len(e.bytes) THEN e.bytes[j - offset]
                        ELSE buf[j]]]

\* StringDef.serialize into a given buffer
StringDef_serialize(t, data, buf, offset) ==
    IF Len(buf) < offset + t.length THEN [raised |-> TRUE, buffer |-> buf]
    ELSE StringDef_serialize_bytes(t, Utf8Encode(data), buf, offset)

\* buffer.find(0, a, b): the first index in a .. b - 1 of a zero byte, or -1
FindZero(buf, a, b) ==
    IF \E k \in a .. (Min(b, Len(buf)) - 1) : buf[k + 1] = 0
    THEN CHOOSE k \in a .. (Min(b, Len(buf)) - 1) :
            buf[k + 1] = 0 /\ \A j \in a .. (k - 1) : buf[j + 1] # 0
    ELSE -1

\* deserialize decoding the whole region whatever find returned
StringDef_deserialize_whole(t, buf, offset, index) ==
    Utf8Decode(Slice(buf, offset, offset + t.length))

\* StringDef.deserialize from the found index on
StringDef_deserialize_found(t, buf, offset, index) ==
    IF index >= 0 THEN Utf8Decode(Slice(buf, offset, index))
    ELSE Utf8Decode(Slice(buf, offset, offset + t.length))

\* StringDef.deserialize
StringDef_deserialize(t, buf, offset) ==
    StringDef_deserialize_found(t, buf, offset, FindZero(buf, offset, offset + t.length))

RECURSIVE BitfieldSerializeLoop(_, _, _, _, _)

\* the loop of BitfieldDef.serialize after element i - 1 gave r
BitfieldSerializeStep(bf, i, data, r, offset) ==
    IF r.raised THEN r ELSE BitfieldSerializeLoop(bf, i + 1, data, r.buffer, offset)

\* the loop of BitfieldDef.serialize from element i on
BitfieldSerializeLoop(bf, i, data, buf, offset) ==
    IF i > Len(bf.fields) THEN [raised |-> FALSE, buffer |-> buf]
    ELSE IF bf.fields[i].name \in DOMAIN data
    THEN BitfieldSerializeStep(bf, i, data,
                               BitfieldDef_serialize_element(bf, bf.fields[i].name,
                                                             data[bf.fields[i].name],
                                                             buf, offset),
                               offset)
    ELSE BitfieldSerializeLoop(bf, i + 1, data, buf, offset)

\* BitfieldDef.serialize into a given buffer
BitfieldDef_serialize(bf, data, buf, offset) ==
    IF Len(buf) < offset + BitfieldDef_size(bf) THEN [raised |-> TRUE, buffer |-> buf]
    ELSE BitfieldSerializeLoop(bf, 1, data, buf, offset)

RECURSIVE BitfieldDeserializeLoop(_, _, _, _, _)

\* the loop of BitfieldDef.deserialize after element i gave r
BitfieldDeserializeStep(bf, i, buf, offset, result, r) ==
    IF r.raised THEN [raised |-> TRUE, value |-> result]
    ELSE BitfieldDeserializeLoop(bf, i + 1, buf, offset,
                                 result @@ (bf.fields[i].name :> r.value))

\* the loop of BitfieldDef.deserialize from element i on
BitfieldDeserializeLoop(bf, i, buf, offset, result) ==
    IF i > Len(bf.fields) THEN [raised |-> FALSE, value |-> result]
    ELSE BitfieldDeserializeStep(bf, i, buf, offset, result,
                                 BitfieldDef_deserialize_element(bf, bf.fields[i].name,
                                                                 buf, offset))

\* BitfieldDef.deserialize
BitfieldDef_deserialize(bf, buf, offset) ==
    IF Len(buf) < BitfieldDef_size(bf) + offset THEN [raised |-> TRUE, value |-> <<>>]
    ELSE BitfieldDeserializeLoop(bf, 1, buf, offset, <<>>)

RECURSIVE Type_serialize(_, _, _, _)
RECURSIVE Type_deserialize(_, _, _)
RECURSIVE ArraySerializeLoop(_, _, _, _, _)
RECURSIVE ArrayDeserializeLoop(_, _, _, _, _)
RECURSIVE SerializeLoop(_, _, _, _, _, _)
RECURSIVE DeserializeLoop(_, _, _, _, _, _)

\* the loop of ArrayDef.serialize after item i gave r
ArraySerializeStep(t, data, i, r, offset) ==
    IF r.raised THEN r
    ELSE ArraySerializeLoop(t, data, i + 1, r.buffer, offset + Type_size(t.type))

\* the loop of ArrayDef.serialize from item i on
ArraySerializeLoop(t, data, i, buf, offset) ==
    IF i > Len(data) THEN [raised |-> FALSE, buffer |-> buf]
    ELSE ArraySerializeStep(t, data, i, Type_serialize(t.type, data[i], buf, offset), offset)

\* ArrayDef.serialize into a given buffer
ArrayDef_serialize(t, data, buf, offset) ==
    IF Len(data) > t.length THEN [raised |-> TRUE, buffer |-> buf]
    ELSE IF Len(buf) < offset + Type_size(t) THEN [raised |-> TRUE, buffer |-> buf]
    ELSE ArraySerializeLoop(t, data, 1, buf, offset)

\* the loop of ArrayDef.deserialize after element i gave r
ArrayDeserializeStep(t, i, buf, offset, result, r) ==
    IF r.raised THEN [raised |-> TRUE, value |-> result]
    ELSE ArrayDeserializeLoop(t, i + 1, buf, offset + Type_size(t.type),
                              Append(result, r.value))

\* the loop of ArrayDef.deserialize from element i on
ArrayDeserializeLoop(t, i, buf, offset, result) ==
    IF i > t.length THEN [raised |-> FALSE, value |-> result]
    ELSE ArrayDeserializeStep(t, i, buf, offset, result,
                              Type_deserialize(t.type, buf, offset))

\* deserialize that starts its loop at the second element
ArrayDef_deserialize_from_second(t, buf, offset) ==
    IF Len(buf) < offset + Type_size(t.type) * t.length
    THEN [raised |-> TRUE, value |-> <<>>]
    ELSE ArrayDeserializeLoop(t, 2, buf, offset, <<>>)

\* ArrayDef.deserialize
ArrayDef_deserialize(t, buf, offset) ==
    IF Len(buf) < offset + Type_size(t.type) * t.length
    THEN [raised |-> TRUE, value |-> <<>>]
    ELSE ArrayDeserializeLoop(t, 1, buf, offset, <<>>)

\* the bitfield field holding the same_level element called name
SameLevelField(sd, name) == DictGet(sd.fields, DictGet(sd.fields_same_level, name).parent)

\* StructDef._serialize_element
StructDef_serialize_element(sd, name, value, buf, buffer_offset) ==
    IF DictHas(sd.fields_same_level, name)
    THEN BitfieldDef_serialize_element(SameLevelField(sd, name).type.def, name, value, buf,
                                       buffer_offset + SameLevelField(sd, name).offset)
    ELSE Type_serialize(DictGet(sd.fields, name).type, value, buf,
                        buffer_offset + DictGet(sd.fields, name).offset)

\* StructDef._deserialize_element
StructDef_deserialize_element(sd, name, buf, buffer_offset) ==
    IF DictHas(sd.fields_same_level, name)
    THEN BitfieldDef_deserialize_element(SameLevelField(sd, name).type.def, name, buf,
                                         buffer_offset + SameLevelField(sd, name).offset)
    ELSE Type_deserialize(DictGet(sd.fields, name).type, buf,
                          buffer_offset + DictGet(sd.fields, name).offset)

\* the loop of StructDef.serialize after name i - 1 gave r
SerializeStep(sd, names, i, data, r, offset) ==
    IF r.raised THEN r ELSE SerializeLoop(sd, names, i + 1, data, r.buffer, offset)

\* the loop of StructDef.serialize from name i on
SerializeLoop(sd, names, i, data, buf, offset) ==
    IF i > Len(names) THEN [raised |-> FALSE, buffer |-> buf]
    ELSE IF names[i] \in DOMAIN data /\ ~startswith(names[i], "__pad")
    THEN SerializeStep(sd, names, i, data,
                       StructDef_serialize_element(sd, names[i], data[names[i]], buf, offset),
                       offset)
    ELSE SerializeLoop(sd, names, i + 1, data, buf, offset)

\* StructDef.serialize(data, buffer, offset) into a given buffer
StructDef_serialize(sd, data, buf, offset) ==
    IF Len(buf) < offset + StructDef_size(sd) THEN [raised |-> TRUE, buffer |-> buf]
    ELSE SerializeLoop(sd, StructDef_element_names(sd), 1, data, buf, offset)

\* StructDef.serialize(data): the buffer is bytearray(self.size())
StructDef_serialize_new(sd, data) ==
    SerializeLoop(sd, StructDef_element_names(sd), 1, data, ZeroBytes(StructDef_size(sd)), 0)

\* the loop of StructDef.deserialize after name i gave r
DeserializeStep(sd, names, i, buf, offset, result, r) ==
    IF r.raised THEN [raised |-> TRUE, value |-> result]
    ELSE DeserializeLoop(sd, names, i + 1, buf, offset, result @@ (names[i] :> r.value))

\* the loop of StructDef.deserialize from name i on
DeserializeLoop(sd, names, i, buf, offset, result) ==
    IF i > Len(names) THEN [raised |-> FALSE, value |-> result]
    ELSE IF startswith(names[i], "__pad")
    THEN DeserializeLoop(sd, names, i + 1, buf, offset, result)
    ELSE DeserializeStep(sd, names, i, buf, offset, result,
                         StructDef_deserialize_element(sd, names[i], buf, offset))

\* StructDef.deserialize asking for one byte more than size() + offset
StructDef_deserialize_needs_spare(sd, buf, offset) ==
    IF Len(buf) <= StructDef_size(sd) + offset THEN [raised |-> TRUE, value |-> <<>>]
    ELSE DeserializeLoop(sd, StructDef_element_names(sd), 1, buf, offset, <<>>)

\* StructDef.deserialize
StructDef_deserialize(sd, buf, offset) ==
    IF Len(buf) < StructDef_size(sd) + offset THEN [raised |-> TRUE, value |-> <<>>]
    ELSE DeserializeLoop(sd, StructDef_element_names(sd), 1, buf, offset, <<>>)

\* the name EnumDef.deserialize returns, as the value of the element
EnumDef_deserialize_value(r) == [raised |-> r.raised, value |-> r.name]

\* serialize(data, buffer, offset) of a type object
Type_serialize(t, data, buf, offset) ==
    CASE t.kind = "basic" -> BasicTypeDef_serialize(t, data, buf, offset)
      [] t.kind = "string" -> StringDef_serialize(t, data, buf, offset)
      [] t.kind = "array" -> ArrayDef_serialize(t, data, buf, offset)
      [] t.kind = "bitfield" -> BitfieldDef_serialize(t.def, data, buf, offset)
      [] t.kind = "enum" -> EnumDef_serialize(t.def, data, buf, offset)
      [] t.kind = "struct" -> StructDef_serialize(t.def, data, buf, offset)

\* deserialize(buffer, offset) of a type object
Type_deserialize(t, buf, offset) ==
    CASE t.kind = "basic" -> BasicTypeDef_deserialize(t, buf, offset)
      [] t.kind = "string" -> StringDef_deserialize(t, buf, offset)
      [] t.kind = "array" -> ArrayDef_deserialize(t, buf, offset)
      [] t.kind = "bitfield" -> BitfieldDef_deserialize(t.def, buf, offset)
      [] t.kind = "enum" -> EnumDef_deserialize_value(EnumDef_deserialize(t.def, buf, offset))
      [] t.kind = "struct" -> StructDef_deserialize(t.def, buf, offset)

-----------------------------------------------------------------------------
(* Instance (instance.py) over a StructDef or a BitfieldDef                 *)

\* datatype._element_names() of the type an Instance wraps
Type_element_names(t) ==
    IF t.kind = "struct" THEN StructDef_element_names(t.def)
    ELSE [i \in 1 .. Len(t.def.fields) |-> t.def.fields[i].name]

\* Instance.__init__: a StructDef has no _element_length, so the loop over
\* the attributes raises AttributeError at its first attribute
Instance_init(t) ==
    [raised |-> t.kind = "struct" /\ Len(Type_element_names(t)) > 0,
     attributes |-> {Type_element_names(t)[i] : i \in 1 .. Len(Type_element_names(t))},
     subinstances |-> {}]

\* self.__type._deserialize_element(item, buffer, buffer_offset)
Type_deserialize_element(t, item, buf, buffer_offset) ==
    IF t.kind = "struct" THEN StructDef_deserialize_element(t.def, item, buf, buffer_offset)
    ELSE BitfieldDef_deserialize_element(t.def, item, buf, buffer_offset)

\* self.__type._serialize_element(item, value, buffer, buffer_offset)
Type_serialize_element(t, item, value, buf, buffer_offset) ==
    IF t.kind = "struct"
    THEN StructDef_serialize_element(t.def, item, value, buf, buffer_offset)
    ELSE BitfieldDef_serialize_element(t.def, item, value, buf, buffer_offset)

\* Instance.__getattr__ of the instance inst of type t
Instance_getattr(t, inst, item, buf, buffer_offset) ==
    IF item \in inst.subinstances THEN [raised |-> FALSE, value |-> "subinstance"]
    ELSE IF item \in inst.attributes
    THEN Type_deserialize_element(t, item, buf, buffer_offset)
    ELSE [raised |-> TRUE, value |-> "AttributeError"]

\* Instance.__setattr__ of the instance inst of type t
Instance_setattr(t, inst, item, value, buf, buffer_offset) ==
    IF item \in inst.subinstances THEN [raised |-> TRUE, buffer |-> buf]
    ELSE IF item \in inst.attributes
    THEN Type_serialize_element(t, item, value, buf, buffer_offset)
    ELSE [raised |-> TRUE, buffer |-> buf]

\* the type and the offset of the field of the struct t that is called child
ChildField(t, child) == DictGet(t.def.fields, child)

\* "instance.child.item = value": __getattr__ hands out the child view, whose
\* __setattr__ writes; any other attribute is a plain value or unknown, and
\* the assignment raises
Instance_child_setattr(t, inst, child, item, value, buf, buffer_offset) ==
    IF child \in inst.subinstances
    THEN Instance_setattr(ChildField(t, child).type, Instance_init(ChildField(t, child).type),
                          item, value, buf, buffer_offset + ChildField(t, child).offset)
    ELSE [raised |-> TRUE, buffer |-> buf]

\* Instance.__bytes__: bytes(self.__buffer), [raised, value]
Instance_bytes(buf, buffer_offset) == [raised |-> FALSE, value |-> buf]

\* _InstanceList.__init__: a StructDef has no _element_length, whatever the
\* name
InstanceList_init(sd, name) == [raised |-> TRUE]

\* _InstanceList.__bytes__: bytes(self.__buffer), [raised, value]
InstanceList_bytes(buf, buffer_offset) == [raised |-> FALSE, value |-> buf]

\* _InstanceList.__check_key raises: the key is an int here
InstanceList_check_key(length, key) == key < 0 \/ key >= length

\* _InstanceList(parenttype, name, buffer, buffer_offset)[key] = value:
\* [raised, buffer]
InstanceList_setitem_of_new(sd, name, key, value, buf, buffer_offset) ==
    IF InstanceList_init(sd, name).raised THEN [raised |-> TRUE, buffer |-> buf]
    ELSE IF InstanceList_check_key(DictGet(sd.fields, name).type.length, key)
    THEN [raised |-> TRUE, buffer |-> buf]
    ELSE Type_serialize(DictGet(sd.fields, name).type.type, value, buf,
                        buffer_offset + DictGet(sd.fields, name).offset
                            + key * Type_size(DictGet(sd.fields, name).type.type))

-----------------------------------------------------------------------------
(* SpecCodec: a struct or union is built from a menu of members, then a     *)
(* dictionary is serialized into a fresh buffer and deserialized again, or  *)
(* an Instance is made of it and its attributes are written and read         *)

MaxCodecFields == 2

\* a bitfield of a signed 3 bit element and an unsigned 5 bit element
Bitfield8 ==
    BitfieldType(BitfieldDef_add(BitfieldDef_add(BitfieldDef_init("little", -1, "little"),
                                                 "s", 3, TRUE).bf,
                                 "u", 5, FALSE).bf)

\* a bitfield forced to 9 bytes that holds one element of 65 bits
WideBitfield ==
    BitfieldType(BitfieldDef_add(BitfieldDef_init("little", 9, "little"),
                                 "w", 65, FALSE).bf)

\* an enum of the constants a = 0, b = 1 and c = 5
Enum3 ==
    EnumType(EnumDef_add(EnumDef_add(EnumDef_add(EnumDef_init("little", -1, FALSE, "little"),
                                                 "a", TRUE, Zero).e,
                                     "b", TRUE, Zero).e,
                         "c", FALSE, FromInt(5)).e)

\* a nested struct of a big-endian int16 and a uint8, aligned to 2: size 4
InnerCodec ==
    StructType(StructDef_add(StructDef_add(StructDef_init("native", 2, FALSE),
                                           TypeName("uint8"), "y", 1, "", FALSE, <<>>).sd,
                             TypeName("int16"), "x", 1, "big", FALSE, <<>>).sd)

\* the members that can be added: the arguments of add and three values for
\* the member, the third of which the member cannot hold
CodecMenu ==
    << [name |-> "i32", datatype |-> TypeName("int32"), byteorder |-> "", shape |-> <<>>,
        values |-> <<Neg(Pow2(31)), FromInt(1234), Pow2(31)>>],
       [name |-> "j32", datatype |-> TypeName("int32"), byteorder |-> "", shape |-> <<>>,
        values |-> <<FromInt(-2), Dec(Pow2(31)), Dec(Neg(Pow2(31)))>>],
       [name |-> "u32", datatype |-> TypeName("uint32"), byteorder |-> "little",
        shape |-> <<>>,
        values |-> <<BitOr(BitOr(Shl(One, 24), Shl(FromInt(2), 16)),
                           BitOr(Shl(FromInt(3), 8), FromInt(4))),
                     Dec(Pow2(32)), MinusOne>>],
       [name |-> "bytes", datatype |-> TypeName("uint8"), byteorder |-> "", shape |-> <<4>>,
        values |-> << <<One, FromInt(2), FromInt(3), FromInt(4)>>,
                      <<FromInt(255), Zero, FromInt(128), FromInt(7)>>,
                      <<One, FromInt(2), FromInt(3), FromInt(4), FromInt(5)>> >>],
       [name |-> "bits", datatype |-> Bitfield8, byteorder |-> "", shape |-> <<>>,
        values |-> << [s |-> FromInt(-4), u |-> FromInt(31)],
                      [s |-> FromInt(3), u |-> Zero],
                      [s |-> FromInt(4), u |-> Zero] >>],
       [name |-> "wide", datatype |-> WideBitfield, byteorder |-> "", shape |-> <<>>,
        values |-> << [w |-> Zero], [w |-> One], [w |-> Pow2(65)] >>],
       [name |-> "kind", datatype |-> Enum3, byteorder |-> "", shape |-> <<>>,
        values |-> <<"a", "c", "zz">>],
       [name |-> "inner", datatype |-> InnerCodec, byteorder |-> "", shape |-> <<>>,
        values |-> << [y |-> FromInt(7), x |-> FromInt(-2)],
                      [y |-> FromInt(255), x |-> Dec(Pow2(15))],
                      [y |-> Zero, x |-> Pow2(15)] >>] >>

\* the menu entry of the member called name
MenuIndex(name) == CHOOSE k \in 1 .. Len(CodecMenu) : CodecMenu[k].name = name

\* the names of the non-padding elements of sd
ElementNames(sd) == {Elements(sd)[i].name : i \in 1 .. Len(Elements(sd))}

\* the dictionary that gives every element its v-th value
CodecData(sd, v) == [n \in ElementNames(sd) |-> CodecMenu[MenuIndex(n)].values[v]]

\* the dictionary that gives only element i, its first value
CodecOnly(sd, i) == [n \in {Elements(sd)[i].name} |-> CodecMenu[MenuIndex(n)].values[1]]

CodecInit ==
    /\ phase = "build"
    /\ sys_byteorder \in {"little", "big"}
    /\ bitfield = NoBitfield
    /\ enum = NoEnum
    /\ \E alignment \in {1, 4}, union \in BOOLEAN :
        sdef = StructDef_init("native", alignment, union)
    /\ buffer = <<>>
    /\ start_offset = 0
    /\ nops = 0
    /\ op = [kind |-> "init"]

\* what "sdef.add(...)" leaves behind, r its outcome
CodecAdded(r) ==
    /\ sdef' = r.sd
    /\ op' = [kind |-> "add", raised |-> r.raised]

\* sdef.add(datatype, name, byteorder=byteorder, shape=shape) of a menu entry
CodecAdd ==
    /\ phase = "build"
    /\ Len(Elements(sdef)) < MaxCodecFields
    /\ \E k \in 1 .. Len(CodecMenu) :
        CodecAdded(StructDef_add(sdef, CodecMenu[k].datatype, CodecMenu[k].name, 1,
                                 CodecMenu[k].byteorder, FALSE, CodecMenu[k].shape))
    /\ UNCHANGED <<phase, sys_byteorder, bitfield, enum, buffer, start_offset, nops>>

\* what "buffer = sdef.serialize(data)" leaves behind, r its outcome
CodecSerialized(data, r) ==
    /\ op' = [kind |-> "serialize", data |-> data, raised |-> r.raised]
    /\ buffer' = IF r.raised THEN buffer ELSE r.buffer

\* buffer = sdef.serialize(data): data gives all elements or just one
CodecSerialize ==
    /\ phase = "build"
    /\ Len(Elements(sdef)) > 0
    /\ \/ \E v \in 1 .. 3 :
            CodecSerialized(CodecData(sdef, v), StructDef_serialize_new(sdef, CodecData(sdef, v)))
       \/ \E i \in 1 .. Len(Elements(sdef)) :
            CodecSerialized(CodecOnly(sdef, i), StructDef_serialize_new(sdef, CodecOnly(sdef, i)))
    /\ phase' = "serialized"
    /\ UNCHANGED <<sys_byteorder, bitfield, enum, sdef, start_offset, nops>>

\* what "result = sdef.deserialize(buffer)" leaves behind, r its outcome
CodecDeserialized(r) ==
    op' = [kind |-> "deserialize", data |-> op.data, raised |-> r.raised, result |-> r.value]

\* result = sdef.deserialize(buffer) of the buffer serialize returned
CodecDeserialize ==
    /\ phase = "serialized"
    /\ ~op.raised
    /\ CodecDeserialized(StructDef_deserialize(sdef, buffer, 0))
    /\ phase' = "done"
    /\ UNCHANGED <<sys_byteorder, bitfield, enum, sdef, buffer, start_offset, nops>>

\* instance = Instance(sdef): the buffer is bytearray(sdef.size())
CodecInstance ==
    /\ phase = "build"
    /\ op' = [kind |-> "instance", raised |-> Instance_init(StructType(sdef)).raised]
    /\ phase' = IF Instance_init(StructType(sdef)).raised THEN "done" ELSE "instance"
    /\ buffer' = ZeroBytes(StructDef_size(sdef))
    /\ UNCHANGED <<sys_byteorder, bitfield, enum, sdef, start_offset, nops>>

\* what "instance.item = value" leaves behind, r its outcome
InstanceWritten(item, value, r) ==
    /\ op' = [kind |-> "setattr", item |-> item, value |-> value, raised |-> r.raised]
    /\ buffer' = r.buffer

\* instance.item = value, for the name of a menu entry and its first value
InstanceSetattr ==
    /\ phase = "instance"
    /\ \E k \in 1 .. Len(CodecMenu) :
        InstanceWritten(CodecMenu[k].name, CodecMenu[k].values[1],
                        Instance_setattr(StructType(sdef), Instance_init(StructType(sdef)),
                                         CodecMenu[k].name, CodecMenu[k].values[1],
                                         buffer, start_offset))
    /\ UNCHANGED <<phase, sys_byteorder, bitfield, enum, sdef, start_offset, nops>>

\* what "instance.item" leaves behind, r its outcome
InstanceRead(item, r) ==
    op' = [kind |-> "getattr", item |-> item, raised |-> r.raised, value |-> r.value]

\* instance.item, for the name of a menu entry
InstanceGetattr ==
    /\ phase = "instance"
    /\ \E k \in 1 .. Len(CodecMenu) :
        InstanceRead(CodecMenu[k].name,
                     Instance_getattr(StructType(sdef), Instance_init(StructType(sdef)),
                                      CodecMenu[k].name, buffer, start_offset))
    /\ UNCHANGED <<phase, sys_byteorder, bitfield, enum, sdef, buffer, start_offset, nops>>

CodecNext ==
    \/ CodecAdd
    \/ CodecSerialize
    \/ CodecDeserialize
    \/ CodecInstance
    \/ InstanceSetattr
    \/ InstanceGetattr

SpecCodec == CodecInit /\ [][CodecNext]_vars

RECURSIVE ValidValue(_, _)
\* v is a value the type t can hold: an integer of the width and signedness
\* of a scalar or of a bitfield element, a list of the array's length, the
\* name of an enum constant, a dictionary of valid values for every element
ValidValue(t, v) ==
    CASE t.kind = "basic" ->
           IF startswith(t.type, "bool") THEN v \in BOOLEAN
           ELSE IF TypeSigned(t.type)
           THEN Leq(Neg(Pow2(8 * TypeBytes(t.type) - 1)), v)
                /\ Less(v, Pow2(8 * TypeBytes(t.type) - 1))
           ELSE ~v.neg /\ Less(v, Pow2(8 * TypeBytes(t.type)))
      [] t.kind = "array" ->
           Len(v) = t.length /\ \A i \in 1 .. Len(v) : ValidValue(t.type, v[i])
      [] t.kind = "bitfield" ->
           /\ DOMAIN v = {t.def.fields[i].name : i \in 1 .. Len(t.def.fields)}
           /\ \A i \in 1 .. Len(t.def.fields) :
                IF t.def.fields[i].signed
                THEN Leq(Neg(Pow2(t.def.fields[i].nbr_of_bits - 1)), v[t.def.fields[i].name])
                     /\ Less(v[t.def.fields[i].name], Pow2(t.def.fields[i].nbr_of_bits - 1))
                ELSE ~v[t.def.fields[i].name].neg
                     /\ Less(v[t.def.fields[i].name], Pow2(t.def.fields[i].nbr_of_bits))
      [] t.kind = "enum" -> EnumDef_has(t.def, v)
      [] t.kind = "struct" ->
           /\ DOMAIN v = ElementNames(t.def)
           /\ \A i \in 1 .. Len(Elements(t.def)) :
                ValidValue(Elements(t.def)[i].type, v[Elements(t.def)[i].name])

\* C1: for a non-union StructDef of integer scalars, arrays, bitfields, enums
\* and nested structs and a dictionary that gives a value in range for every
\* non-padding element, serialize into a buffer of its own succeeds and
\* deserialize of that buffer returns a dictionary equal to the one given.
C1_RoundTrip ==
    (/\ op.kind \in {"serialize", "deserialize"}
     /\ ~sdef.union
     /\ ValidValue(StructType(sdef), op.data))
    => /\ ~op.raised
       /\ op.kind = "deserialize" => op.result = op.data

\* a struct that holds the 65 bit element was given the valid {"wide": {"w": 0}}
\* and serialize raised
C1_Witness ==
    /\ op.kind = "serialize"
    /\ ~sdef.union
    /\ ElementNames(sdef) = {"wide"}
    /\ op.data = [wide |-> [w |-> Zero]]
    /\ op.raised

\* the round trip of C1 for the structs without an element wider than MaskBits
RoundTripUpToMaskBits ==
    (/\ op.kind \in {"serialize", "deserialize"}
     /\ ~sdef.union
     /\ "wide" \notin ElementNames(sdef)
     /\ ValidValue(StructType(sdef), op.data))
    => /\ ~op.raised
       /\ op.kind = "deserialize" => op.result = op.data

\* a round trip that succeeded over a struct of a bitfield and a nested struct
RoundTripReached ==
    /\ op.kind = "deserialize"
    /\ ~sdef.union
    /\ ElementNames(sdef) = {"bits", "inner"}
    /\ ValidValue(StructType(sdef), op.data)
    /\ op.result = op.data

\* the members of a union all start at offset 0
UnionOffsetsZero ==
    sdef.union => \A i \in 1 .. Len(Elements(sdef)) : Elements(sdef)[i].offset = 0

\* 0x01020304 written through the little-endian uint32 member of a union is
\* read through its uint8[4] member as [4, 3, 2, 1]
UnionOverlay ==
    (/\ op.kind = "deserialize"
     /\ sdef.union
     /\ ElementNames(sdef) = {"u32", "bytes"}
     /\ DOMAIN op.data = {"u32"})
    => /\ ~op.raised
       /\ op.result["bytes"] = <<FromInt(4), FromInt(3), FromInt(2), One>>

\* an Instance can be made of a union that has members
UnionInstanceMade ==
    (op.kind = "instance" /\ sdef.union /\ Elements(sdef) # <<>>) => ~op.raised

\* an int32 member of a union written through an Instance is read back
\* unchanged through another int32 member
UnionInstanceReadBack ==
    (/\ sdef.union
     /\ op.kind = "setattr" /\ op.item = "i32" /\ "i32" \in ElementNames(sdef)
     /\ op'.kind = "getattr" /\ op'.item = "j32" /\ "j32" \in ElementNames(sdef))
    => ~op.raised /\ ~op'.raised /\ op'.value = op.value

\* C6: in a union every non-padding field has offset 0 after any sequence of
\* add calls; 0x01020304 serialized into a little-endian uint32 member is
\* deserialized from a uint8[4] member as [0x04, 0x03, 0x02, 0x01]; an int32
\* member written through an Instance of the union is read back unchanged
\* through another int32 member.
C6_UnionOverlay ==
    /\ [](UnionOffsetsZero /\ UnionOverlay /\ UnionInstanceMade)
    /\ [][UnionInstanceReadBack]_vars

\* Instance(union) was called for a union of two int32 members and raised
C6_Witness ==
    /\ op.kind = "instance"
    /\ sdef.union
    /\ ElementNames(sdef) = {"i32", "j32"}
    /\ op.raised

\* the overlay of C6 was read: the uint8[4] member gave [4, 3, 2, 1]
UnionOverlayReached ==
    /\ op.kind = "deserialize"
    /\ sdef.union
    /\ ElementNames(sdef) = {"u32", "bytes"}
    /\ DOMAIN op.data = {"u32"}
    /\ op.result["bytes"] = <<FromInt(4), FromInt(3), FromInt(2), One>>

-----------------------------------------------------------------------------
(* SpecText: a struct of one text field of capacity N; a string is          *)
(* serialized into a fresh buffer, or a caller's buffer is loaded, and the  *)
(* buffer is deserialized.  A string is the sequence of its code points.    *)

\* the largest capacity of the text field
MaxText == 5

\* the strings given to serialize: "", "h", "hi", U+00E9, U+20AC, "a\0b",
\* "hi" U+00E9, U+1F600 and a lone surrogate
TextStrings ==
    {<<>>, <<104>>, <<104, 105>>, <<233>>, <<8364>>, <<97, 0, 98>>, <<104, 105, 233>>,
     <<128512>>, <<55296>>}

\* the bytes of a caller's buffer: zero, "a" and the two bytes of U+00E9
TextBytes == {0, 97, 195, 169}

\* the buffer b"ab\0cd"
AbZeroCd == <<97, 98, 0, 99, 100>>

\* the capacity of the text field
TextLength == sdef.fields[1].type.length

TextInit ==
    /\ phase = "define"
    /\ sys_byteorder \in {"little", "big"}
    /\ bitfield = NoBitfield
    /\ enum = NoEnum
    /\ \E n \in 1 .. MaxText :
        sdef = StructDef_add(StructDef_init("native", 1, FALSE), TypeName("utf-8"), "text",
                             n, "", FALSE, <<>>).sd
    /\ buffer = <<>>
    /\ start_offset = 0
    /\ nops = 0
    /\ op = [kind |-> "init"]

\* what "buffer = sdef.serialize({"text": data})" leaves behind, r its outcome
TextSerialized(data, r) ==
    /\ op' = [kind |-> "serialize", data |-> data, raised |-> r.raised]
    /\ buffer' = IF r.raised THEN buffer ELSE r.buffer
    /\ phase' = IF r.raised THEN "done" ELSE "loaded"

\* buffer = sdef.serialize({"text": data})
TextSerialize ==
    /\ phase = "define"
    /\ \E data \in TextStrings :
        TextSerialized(data, StructDef_serialize_new(sdef, [text |-> data]))
    /\ UNCHANGED <<sys_byteorder, bitfield, enum, sdef, start_offset, nops>>

\* the caller's buffer: o bytes "a", then TextLength bytes
TextLoad ==
    /\ phase = "define"
    /\ phase' = "loaded"
    /\ \E o \in {0, 1} :
        /\ start_offset' = o
        /\ \E bs \in [1 .. TextLength -> TextBytes] \cup {AbZeroCd} :
            /\ Len(bs) = TextLength
            /\ buffer' = [j \in 1 .. o |-> 97] \o bs
    /\ op' = [kind |-> "load"]
    /\ UNCHANGED <<sys_byteorder, bitfield, enum, sdef, nops>>

\* what "result = sdef.deserialize(buffer, start_offset)" leaves behind
TextDeserialized(r) ==
    op' = [kind |-> "deserialize", raised |-> r.raised, result |-> r.value]

\* result = sdef.deserialize(buffer, start_offset)
TextDeserialize ==
    /\ phase = "loaded"
    /\ phase' = "done"
    /\ TextDeserialized(StructDef_deserialize(sdef, buffer, start_offset))
    /\ UNCHANGED <<sys_byteorder, bitfield, enum, sdef, buffer, start_offset, nops>>

TextNext == TextSerialize \/ TextLoad \/ TextDeserialize

SpecText == TextInit /\ [][TextNext]_vars

\* the bytes of the text field's region of the buffer
TextRegion == SubSeq(buffer, start_offset + 1, start_offset + TextLength)

\* the bytes of bs that precede its first zero byte, all of bs if it has none
BeforeFirstZero(bs) ==
    IF \E k \in 1 .. Len(bs) : bs[k] = 0
    THEN SubSeq(bs, 1, (CHOOSE k \in 1 .. Len(bs) :
                            bs[k] = 0 /\ \A j \in 1 .. (k - 1) : bs[j] # 0) - 1)
    ELSE bs

\* C13: for a text field of capacity N, serialize into a fresh buffer writes
\* the UTF-8 bytes of the string followed by zero bytes up to N and raises
\* when the encoding is longer than N; deserialize returns the decoding of
\* the bytes of the N-byte region that precede its first zero byte, or of all
\* N bytes when the region holds no zero byte.
C13_TextField ==
    /\ (op.kind = "serialize" /\ ~Utf8Encode(op.data).raised) =>
          IF Len(Utf8Bytes(op.data)) > TextLength THEN op.raised
          ELSE /\ ~op.raised
               /\ buffer = Utf8Bytes(op.data)
                           \o [j \in 1 .. (TextLength - Len(Utf8Bytes(op.data))) |-> 0]
    /\ (/\ op.kind = "deserialize"
        /\ Len(buffer) >= start_offset + TextLength
        /\ ~Utf8Decode(BeforeFirstZero(TextRegion)).raised) =>
          /\ ~op.raised
          /\ op.result = [text |-> Utf8Decode(BeforeFirstZero(TextRegion)).value]

\* the buffer b"ab\0cd" was deserialized by a 5 byte text field as "ab"
C13_Witness ==
    /\ op.kind = "deserialize" /\ ~op.raised
    /\ TextLength = 5
    /\ buffer = AbZeroCd /\ start_offset = 0
    /\ op.result = [text |-> <<97, 98>>]

\* "hi" was serialized by a 5 byte text field as b"hi\0\0\0"
TextPaddedReached ==
    /\ op.kind = "serialize" /\ ~op.raised
    /\ TextLength = 5
    /\ op.data = <<104, 105>>
    /\ buffer = <<104, 105, 0, 0, 0>>

-----------------------------------------------------------------------------
(* SpecArray: a struct of one array field "arr" of L integers; a list is    *)
(* serialized into a caller's buffer at an offset and the buffer is         *)
(* deserialized                                                             *)

\* the largest length of the array
MaxArray == 3

\* the element types: the datatype and byteorder arguments of add
ArrayElems ==
    {[datatype |-> "uint8", byteorder |-> ""],
     [datatype |-> "int16", byteorder |-> "little"],
     [datatype |-> "uint16", byteorder |-> "big"]}

\* the items of the lists given to serialize: 1, 0x0102 and -2
ArrayItems == {One, FromInt(258), FromInt(-2)}

\* the ArrayDef of the field
ArrayType == sdef.fields[1].type

\* the size of one element of the array
ElemSize == Type_size(ArrayType.type)

ArrayInit ==
    /\ phase = "define"
    /\ sys_byteorder \in {"little", "big"}
    /\ bitfield = NoBitfield
    /\ enum = NoEnum
    /\ \E e \in ArrayElems, n \in 1 .. MaxArray :
        sdef = StructDef_add(StructDef_init("native", 1, FALSE), TypeName(e.datatype), "arr",
                             1, e.byteorder, FALSE, <<n>>).sd
    /\ buffer = <<>>
    /\ start_offset = 0
    /\ nops = 0
    /\ op = [kind |-> "init"]

\* the caller's buffer: start_offset bytes, the bytes of the array and up to
\* Slack bytes more, byte j holding 160 + j
ArrayLoad ==
    /\ phase = "define"
    /\ phase' = "loaded"
    /\ \E o \in {0, 1}, extra \in {0, Slack} :
        /\ start_offset' = o
        /\ buffer' = [j \in 1 .. (o + StructDef_size(sdef) + extra) |-> 160 + j]
    /\ op' = [kind |-> "load"]
    /\ UNCHANGED <<sys_byteorder, bitfield, enum, sdef, nops>>

\* what "sdef.serialize({"arr": data}, buffer, start_offset)" leaves behind:
\* the caller's buffer holds what was written before a raise
ArraySerialized(data, r) ==
    /\ op' = [kind |-> "serialize", data |-> data, raised |-> r.raised, before |-> buffer]
    /\ buffer' = r.buffer

\* sdef.serialize({"arr": data}, buffer, start_offset) for a list of up to
\* one item more than the array holds
ArraySerialize ==
    /\ phase = "loaded"
    /\ phase' = "serialized"
    /\ \E k \in 0 .. (ArrayType.length + 1) :
        \E data \in [1 .. k -> ArrayItems] :
            ArraySerialized(data, StructDef_serialize(sdef, [arr |-> data], buffer,
                                                      start_offset))
    /\ UNCHANGED <<sys_byteorder, bitfield, enum, sdef, start_offset, nops>>

\* what "result = sdef.deserialize(buffer, start_offset)" leaves behind
ArrayDeserialized(r) ==
    op' = [kind |-> "deserialize", raised |-> r.raised, result |-> r.value]

\* result = sdef.deserialize(buffer, start_offset)
ArrayDeserialize ==
    /\ phase \in {"loaded", "serialized"}
    /\ phase' = "done"
    /\ ArrayDeserialized(StructDef_deserialize(sdef, buffer, start_offset))
    /\ UNCHANGED <<sys_byteorder, bitfield, enum, sdef, buffer, start_offset, nops>>

ArrayNext == ArrayLoad \/ ArraySerialize \/ ArrayDeserialize

SpecArray == ArrayInit /\ [][ArrayNext]_vars

\* the integer the bytes of element i (from 0) of the array stand for
ElemDecoded(i) ==
    FromBytesSigned(SubSeq(buffer, start_offset + i * ElemSize + 1,
                           start_offset + (i + 1) * ElemSize),
                    ResolveOrder(ArrayType.type.byteorder), TypeSigned(ArrayType.type.type))

\* C14: serialize of an array of length L raises when given more than L
\* items; given k <= L items that the element type can hold it writes item i
\* at byte offset i x element size for i < k and leaves every other byte of
\* the buffer, the bytes of elements k .. L - 1 among them, unchanged;
\* deserialize returns exactly L elements, element i decoded from byte offset
\* i x element size.
C14_ArrayItems ==
    /\ (op.kind = "serialize" /\ Len(op.data) > ArrayType.length) => op.raised
    /\ (/\ op.kind = "serialize"
        /\ Len(op.data) <= ArrayType.length
        /\ \A i \in 1 .. Len(op.data) : ValidValue(ArrayType.type, op.data[i])) =>
          /\ ~op.raised
          /\ Len(buffer) = Len(op.before)
          /\ \A i \in 1 .. Len(op.data) : ElemDecoded(i - 1) = op.data[i]
          /\ \A j \in 1 .. Len(buffer) :
                j \notin (start_offset + 1) .. (start_offset + Len(op.data) * ElemSize)
                    => buffer[j] = op.before[j]
    /\ (op.kind = "deserialize" /\ Len(buffer) >= start_offset + StructDef_size(sdef)) =>
          /\ ~op.raised
          /\ Len(op.result["arr"]) = ArrayType.length
          /\ \A i \in 1 .. ArrayType.length : op.result["arr"][i] = ElemDecoded(i - 1)

\* two items were serialized at offset 1 into an array of three int16: the
\* bytes of the third element are the ones the buffer held before
C14_Witness ==
    /\ op.kind = "serialize" /\ ~op.raised
    /\ ArrayType.length = 3 /\ ElemSize = 2 /\ start_offset = 1
    /\ op.data = <<FromInt(258), FromInt(-2)>>
    /\ SubSeq(buffer, 2, 5) = <<2, 1, 254, 255>>
    /\ SubSeq(buffer, 6, 7) = <<166, 167>>

\* three elements were deserialized from the buffer two items were written to
ArrayDeserializedReached ==
    /\ op.kind = "deserialize" /\ ~op.raised
    /\ ArrayType.length = 3 /\ ElemSize = 2 /\ start_offset = 1
    /\ op.result["arr"][1] = FromInt(258) /\ op.result["arr"][2] = FromInt(-2)
    /\ Len(op.result["arr"]) = 3

-----------------------------------------------------------------------------
(* SpecShape: a field "m" added with a shape and a length; a nested list is *)
(* serialized into a fresh buffer, or a caller's buffer is loaded, and the  *)
(* buffer is deserialized                                                   *)

\* the largest dimension of a shape
MaxDim == 2

\* the shapes given to add: one to three dimensions
Shapes == UNION {[1 .. k -> 1 .. MaxDim] : k \in 1 .. 3}

\* the dimensions of the field: the shape, with the length appended if not 1
RECURSIVE Dims(_)
Dims(t) == IF t.kind = "array" THEN <<t.length>> \o Dims(t.type) ELSE <<>>

\* the scalar type of the elements of the field
RECURSIVE Scalar(_)
Scalar(t) == IF t.kind = "array" THEN Scalar(t.type) ELSE t

\* the field "m"
ShapeField == DictGet(sdef.fields, "m")

RECURSIVE IndexList(_, _, _)
\* the nested list of the dimensions ds from level on whose element at
\* [i0][i1].. is 1 + the number with the base 4 digits i0 i1 ..
IndexList(ds, level, code) ==
    IF level > Len(ds) THEN FromInt(1 + code)
    ELSE [i \in 1 .. ds[level] |-> IndexList(ds, level + 1, 4 * code + (i - 1))]

ShapeInit ==
    /\ phase = "define"
    /\ sys_byteorder \in {"little", "big"}
    /\ bitfield = NoBitfield
    /\ enum = NoEnum
    /\ \E lead \in BOOLEAN :
        sdef = IF lead THEN Add1(StructDef_init("native", 2, FALSE), TypeName("uint8"), "lead")
               ELSE StructDef_init("native", 2, FALSE)
    /\ buffer = <<>>
    /\ start_offset = 0
    /\ nops = 0
    /\ op = [kind |-> "init"]

\* what "sdef.add(datatype, "m", length=length, shape=shape)" leaves behind
ShapeAdded(length, shape, r) ==
    /\ sdef' = r.sd
    /\ op' = [kind |-> "add", length |-> length, shape |-> shape, raised |-> r.raised]

\* sdef.add(datatype, "m", length=length, byteorder="big", shape=shape)
ShapeAdd ==
    /\ phase = "define"
    /\ phase' = "added"
    /\ \E datatype \in {"uint8", "uint16"}, length \in {1, 2}, shape \in Shapes :
        ShapeAdded(length, shape,
                   StructDef_add(sdef, TypeName(datatype), "m", length, "big", FALSE, shape))
    /\ UNCHANGED <<sys_byteorder, bitfield, enum, buffer, start_offset, nops>>

\* what "buffer = sdef.serialize({"m": data})" leaves behind, r its outcome
ShapeSerialized(data, r) ==
    /\ op' = [kind |-> "serialize", data |-> data, raised |-> r.raised]
    /\ buffer' = IF r.raised THEN buffer ELSE r.buffer

\* buffer = sdef.serialize({"m": data}) for the list that numbers its indexes
ShapeSerialize ==
    /\ phase = "added"
    /\ phase' = "loaded"
    /\ ShapeSerialized(IndexList(Dims(ShapeField.type), 1, 0),
                       StructDef_serialize_new(sdef, [m |-> IndexList(Dims(ShapeField.type),
                                                                      1, 0)]))
    /\ UNCHANGED <<sys_byteorder, bitfield, enum, sdef, start_offset, nops>>

\* the caller's buffer of size() bytes, byte j holding 100 + j
ShapeLoad ==
    /\ phase = "added"
    /\ phase' = "loaded"
    /\ buffer' = [j \in 1 .. StructDef_size(sdef) |-> 100 + j]
    /\ op' = [kind |-> "load"]
    /\ UNCHANGED <<sys_byteorder, bitfield, enum, sdef, start_offset, nops>>

\* what "result = sdef.deserialize(buffer)" leaves behind, r its outcome
ShapeDeserialized(r) ==
    op' = [kind |-> "deserialize", raised |-> r.raised, result |-> r.value]

\* result = sdef.deserialize(buffer)
ShapeDeserialize ==
    /\ phase = "loaded"
    /\ phase' = "done"
    /\ ShapeDeserialized(StructDef_deserialize(sdef, buffer, 0))
    /\ UNCHANGED <<sys_byteorder, bitfield, enum, sdef, buffer, start_offset, nops>>

ShapeNext == ShapeAdd \/ ShapeSerialize \/ ShapeLoad \/ ShapeDeserialize

SpecShape == ShapeInit /\ [][ShapeNext]_vars

\* the index tuples (from 0) of the dimensions ds
IndexTuples(ds) ==
    {idx \in [1 .. Len(ds) -> 0 .. MaxDim] : \A i \in 1 .. Len(ds) : idx[i] < ds[i]}

RECURSIVE FlatIndex(_, _, _)
\* (..(i0 * d1 + i1) * d2 + ..) * dk + ik, over the first n dimensions
FlatIndex(idx, ds, n) ==
    IF n = 0 THEN 0 ELSE FlatIndex(idx, ds, n - 1) * ds[n] + idx[n]

RECURSIVE Nested(_, _, _)
\* v[i0][i1]..[ik] for the indexes of idx from level on
Nested(v, idx, level) ==
    IF level > Len(idx) THEN v ELSE Nested(v[idx[level] + 1], idx, level + 1)

RECURSIVE NestedLens(_, _, _)
\* v is a list of ds[level] lists of ds[level + 1] lists .. of elements
NestedLens(v, ds, level) ==
    level > Len(ds) \/ (/\ Len(v) = ds[level]
                        /\ \A i \in 1 .. Len(v) : NestedLens(v[i], ds, level + 1))

\* the integer the element bytes at flat position k of the field stand for
ShapeDecoded(k) ==
    FromBytesSigned(SubSeq(buffer,
                           ShapeField.offset + k * Type_size(Scalar(ShapeField.type)) + 1,
                           ShapeField.offset + (k + 1) * Type_size(Scalar(ShapeField.type))),
                    "big", FALSE)

\* C15: for a field added with shape (d0, .., dk), with length, if not 1,
\* appended as the last dimension, the element at index [i0][i1]..[ik] is
\* stored at byte offset field.offset + ((..(i0 * d1 + i1) * d2 + ..) * dk + ik)
\* x element size, and deserialize returns nested lists in that order.
C15_RowMajor ==
    /\ (op.kind = "add") =>
          /\ ~op.raised
          /\ Dims(ShapeField.type)
               = (IF op.length = 1 THEN op.shape ELSE op.shape \o <<op.length>>)
    /\ (op.kind = "serialize") =>
          /\ ~op.raised
          /\ \A idx \in IndexTuples(Dims(ShapeField.type)) :
                ShapeDecoded(FlatIndex(idx, Dims(ShapeField.type), Len(idx)))
                    = Nested(op.data, idx, 1)
    /\ (op.kind = "deserialize") =>
          /\ ~op.raised
          /\ NestedLens(op.result["m"], Dims(ShapeField.type), 1)
          /\ \A idx \in IndexTuples(Dims(ShapeField.type)) :
                Nested(op.result["m"], idx, 1)
                    = ShapeDecoded(FlatIndex(idx, Dims(ShapeField.type), Len(idx)))

\* uint16 "m" was added with shape (2, 1) and length 2 after a uint8: element
\* [1][0][1] was serialized at byte offset 2 + 3 * 2
C15_Witness ==
    /\ op.kind = "serialize" /\ ~op.raised
    /\ Dims(ShapeField.type) = <<2, 1, 2>>
    /\ ShapeField.offset = 2
    /\ Type_size(Scalar(ShapeField.type)) = 2
    /\ Nested(op.data, <<1, 0, 1>>, 1) = FromInt(18)
    /\ SubSeq(buffer, 9, 10) = <<0, 18>>

-----------------------------------------------------------------------------
(* SpecArgs: add called with valid and invalid arguments                    *)

\* the number of elements added to the struct
MaxArgsFields == 2

ArgsNames == <<"a", "b", "c", "d">>

\* the datatype arguments: primitive names, an unknown name, codec objects
\* and an object that is no codec
ArgsTypes ==
    {TypeName("uint8"), TypeName("invalid"), Bitfield8, [kind |-> "object"]}

\* the shape arguments: None, tuples and ints
ArgsShapes ==
    {[int |-> FALSE, dims |-> <<>>], [int |-> FALSE, dims |-> <<2>>],
     [int |-> FALSE, dims |-> <<2, 0>>], [int |-> TRUE, dims |-> <<0>>],
     [int |-> TRUE, dims |-> <<-1>>]}

ArgsInit ==
    /\ phase = "define"
    /\ sys_byteorder = "little"
    /\ bitfield = NoBitfield
    /\ enum = NoEnum
    /\ \E alignment \in {1, 4} : sdef = StructDef_init("native", alignment, FALSE)
    /\ buffer = <<>>
    /\ start_offset = 0
    /\ nops = 0
    /\ op = [kind |-> "init"]

\* what "sdef.add(...)" leaves behind, r its outcome
ArgsAdded(args, r) ==
    /\ sdef' = r.sd
    /\ op' = [kind |-> "add", args |-> args, raised |-> r.raised, before |-> sdef]

\* sdef.add(datatype, name, length, byteorder, same_level, shape) for the
\* arguments of the record a
ArgsCall(a) ==
    ArgsAdded(a, IF a.shape.int
                 THEN StructDef_add_int_shape(sdef, a.datatype, a.name, a.length, a.byteorder,
                                              a.same_level, a.shape.dims[1])
                 ELSE StructDef_add(sdef, a.datatype, a.name, a.length, a.byteorder,
                                    a.same_level, a.shape.dims))

\* sdef.add(...): a new name, or the first one again
ArgsAdd ==
    /\ phase = "define"
    /\ Len(Elements(sdef)) < MaxArgsFields
    /\ \E k \in {1, Len(Elements(sdef)) + 1}, datatype \in ArgsTypes, length \in {0, 1},
          byteorder \in {"", "big", "invalid"}, same_level \in BOOLEAN, shape \in ArgsShapes :
        ArgsCall([datatype |-> datatype, name |-> ArgsNames[k], length |-> length,
                  byteorder |-> byteorder, same_level |-> same_level, shape |-> shape])
    /\ UNCHANGED <<phase, sys_byteorder, bitfield, enum, buffer, start_offset, nops>>

ArgsNext == ArgsAdd

SpecArgs == ArgsInit /\ [][ArgsNext]_vars

\* the arguments ask for an array
ArgsArray(a) == a.shape.dims # <<>> \/ a.length # 1

\* the arguments are ones add has to refuse, leaving the int shape aside
ArgsInvalidButShapeInt(a, before) ==
    \/ a.length < 1
    \/ ~a.shape.int /\ \E i \in 1 .. Len(a.shape.dims) : a.shape.dims[i] < 1
    \/ DictHas(before.fields, a.name)
    \/ a.byteorder \notin {"", "native", "little", "big"}
    \/ a.datatype.kind = "object"
    \/ a.datatype.kind = "name" /\ a.datatype.name \notin TypeNames \cup {"utf-8"}
    \/ a.same_level /\ (a.datatype.kind # "bitfield" \/ ArgsArray(a))

\* the arguments are ones add has to refuse
ArgsInvalid(a, before) ==
    \/ ArgsInvalidButShapeInt(a, before)
    \/ a.shape.int /\ a.shape.dims[1] < 1

\* the add that op records raised and left the definition as it was
RaisedUnchanged ==
    /\ op.raised
    /\ sdef.fields = op.before.fields
    /\ sdef.fields_same_level = op.before.fields_same_level
    /\ StructDef_size(sdef) = StructDef_size(op.before)

\* C16: add raises, and leaves the field list, every stored offset and
\* size() of the definition unchanged, when a length or shape dimension is
\* below 1, the name is already a field, the byte order is not native,
\* little or big, the type is neither a known primitive name nor a codec
\* object, or same_level is combined with a non-bitfield type or an array.
C16_AddRejects ==
    (op.kind = "add" /\ ArgsInvalid(op.args, op.before)) => RaisedUnchanged

\* add("uint8", "b", shape=0) after one element: it did not raise and the
\* definition holds the new field
C16_Witness ==
    /\ op.kind = "add" /\ ~op.raised
    /\ op.args.shape = [int |-> TRUE, dims |-> <<0>>]
    /\ op.args.datatype = TypeName("uint8")
    /\ Len(op.before.fields) = 1
    /\ DictHas(sdef.fields, "b") /\ ~DictHas(op.before.fields, "b")

\* the statement of C16 for every argument but a shape given as an int
AddRejectsButShapeInt ==
    (op.kind = "add" /\ ArgsInvalidButShapeInt(op.args, op.before)) => RaisedUnchanged

\* add raised for a name that is already a field and changed nothing
AddRejectedReached ==
    /\ op.kind = "add" /\ op.raised
    /\ DictHas(op.before.fields, op.args.name)
    /\ Len(op.before.fields) = 1
    /\ sdef = op.before

-----------------------------------------------------------------------------
(* SpecRead: deserialize of a caller's buffer at an offset                  *)

\* the number of fields added to the struct
MaxReadFields == 2

\* the fields that can be added: scalars, a bitfield as one field and twice
\* flattened into the parent, a text field, an enum and a 65 bit bitfield
ReadMenu ==
    << [name |-> "x", datatype |-> TypeName("uint8"), length |-> 1, same_level |-> FALSE],
       [name |-> "y", datatype |-> TypeName("uint32"), length |-> 1, same_level |-> FALSE],
       [name |-> "bits", datatype |-> Bitfield8, length |-> 1, same_level |-> FALSE],
       [name |-> "flat", datatype |-> Bitfield8, length |-> 1, same_level |-> TRUE],
       [name |-> "flat2", datatype |-> Bitfield8, length |-> 1, same_level |-> TRUE],
       [name |-> "t", datatype |-> TypeName("utf-8"), length |-> 2, same_level |-> FALSE],
       [name |-> "kind", datatype |-> Enum3, length |-> 1, same_level |-> FALSE],
       [name |-> "wide", datatype |-> WideBitfield, length |-> 1, same_level |-> FALSE] >>

\* the byte pairs a caller's buffer repeats
ReadPatterns == {<<0, 0>>, <<255, 255>>, <<1, 0>>, <<195, 169>>, <<195, 40>>}

ReadInit ==
    /\ phase = "define"
    /\ sys_byteorder \in {"little", "big"}
    /\ bitfield = NoBitfield
    /\ enum = NoEnum
    /\ \E alignment \in {1, 4}, union \in BOOLEAN :
        sdef = StructDef_init("native", alignment, union)
    /\ buffer = <<>>
    /\ start_offset = 0
    /\ nops = 0
    /\ op = [kind |-> "init"]

\* what "sdef.add(...)" leaves behind, r its outcome
ReadAdded(r) ==
    /\ sdef' = r.sd
    /\ op' = [kind |-> "add", raised |-> r.raised]

\* sdef.add(datatype, name, length=length, same_level=same_level) of a menu
\* entry
ReadAdd ==
    /\ phase = "define"
    /\ Len(Elements(sdef)) < MaxReadFields
    /\ \E k \in 1 .. Len(ReadMenu) :
        ReadAdded(StructDef_add(sdef, ReadMenu[k].datatype, ReadMenu[k].name,
                                ReadMenu[k].length, "", ReadMenu[k].same_level, <<>>))
    /\ UNCHANGED <<phase, sys_byteorder, bitfield, enum, buffer, start_offset, nops>>

\* the caller's buffer: a byte pair repeated, one byte too short for sdef at
\* the offset, just long enough, or one byte longer
ReadLoad ==
    /\ phase = "define"
    /\ Len(Elements(sdef)) > 0
    /\ phase' = "loaded"
    /\ \E o \in {0, 1}, p \in ReadPatterns, d \in {-1, 0, 1} :
        /\ start_offset' = o
        /\ buffer' = [j \in 1 .. o + StructDef_size(sdef) + d |-> p[2 - (j % 2)]]
    /\ op' = [kind |-> "load"]
    /\ UNCHANGED <<sys_byteorder, bitfield, enum, sdef, nops>>

\* what "result = sdef.deserialize(buffer, start_offset)" leaves behind
ReadDeserialized(r) ==
    op' = [kind |-> "deserialize", raised |-> r.raised, result |-> r.value]

\* result = sdef.deserialize(buffer, start_offset)
ReadDeserialize ==
    /\ phase = "loaded"
    /\ ReadDeserialized(StructDef_deserialize(sdef, buffer, start_offset))
    /\ phase' = "done"
    /\ UNCHANGED <<sys_byteorder, bitfield, enum, sdef, buffer, start_offset, nops>>

\* the values written to an element of the flattened bitfield
ReadValues == {FromInt(-4), FromInt(3), FromInt(31)}

\* what a write of value under name leaves behind, r its outcome
ReadWritten(kind, name, value, r) ==
    /\ op' = [kind |-> kind, name |-> name, value |-> value, raised |-> r.raised,
              before |-> buffer]
    /\ buffer' = r.buffer

\* sdef.serialize({name: value}, buffer, start_offset) for an element name
\* of the flattened bitfield and a buffer that is long enough
ReadSerialize ==
    /\ phase = "loaded"
    /\ Len(buffer) >= start_offset + StructDef_size(sdef)
    /\ \E name \in {"s", "u"}, value \in ReadValues :
        /\ DictHas(sdef.fields_same_level, name)
        /\ ReadWritten("serialize", name, value,
                       StructDef_serialize(sdef, [n \in {name} |-> value], buffer,
                                           start_offset))
    /\ phase' = "done"
    /\ UNCHANGED <<sys_byteorder, bitfield, enum, sdef, start_offset, nops>>

\* Instance(datatype, buffer, buffer_offset).name = value: [raised, buffer]
Instance_write(t, name, value, buf, buffer_offset) ==
    IF Instance_init(t).raised THEN [raised |-> TRUE, buffer |-> buf]
    ELSE Instance_setattr(t, Instance_init(t), name, value, buf, buffer_offset)

\* Instance(sdef, buffer, start_offset).name = value for an element name of
\* the flattened bitfield and a buffer that is long enough
ReadInstanceWrite ==
    /\ phase = "loaded"
    /\ Len(buffer) >= start_offset + StructDef_size(sdef)
    /\ \E name \in {"s", "u"}, value \in ReadValues :
        /\ DictHas(sdef.fields_same_level, name)
        /\ ReadWritten("setattr", name, value,
                       Instance_write(StructType(sdef), name, value, buffer, start_offset))
    /\ phase' = "done"
    /\ UNCHANGED <<sys_byteorder, bitfield, enum, sdef, start_offset, nops>>

ReadNext ==
    \/ ReadAdd
    \/ ReadLoad
    \/ ReadDeserialize
    \/ ReadSerialize
    \/ ReadInstanceWrite

SpecRead == ReadInit /\ [][ReadNext]_vars

\* the element names of the bitfield that the field f holds
FlatNames(f) == {f.type.def.fields[i].name : i \in 1 .. Len(f.type.def.fields)}

\* the non-padding element names of sd: the names of its fields that are
\* neither padding nor flattened, and the element names of the flattened
\* bitfields
ReadableNames(sd) ==
    {Elements(sd)[i].name : i \in {j \in 1 .. Len(Elements(sd)) : ~Elements(sd)[j].same_level}}
    \cup UNION {FlatNames(Elements(sd)[i]) :
                i \in {j \in 1 .. Len(Elements(sd)) : Elements(sd)[j].same_level}}

\* the buffer holds size() bytes from the offset on
ReadLongEnough == Len(buffer) >= start_offset + StructDef_size(sdef)

\* the result has one entry per non-padding element name and no other
ReadAllNames ==
    /\ DOMAIN op.result = ReadableNames(sdef)
    /\ \A n \in DOMAIN op.result : ~startswith(n, "__pad")

\* the codec of some element cannot decode its bytes of the buffer
ReadUndecodable ==
    \E n \in ReadableNames(sdef) :
        StructDef_deserialize_element(sdef, n, buffer, start_offset).raised

ReadShortReached ==
    /\ op.kind = "deserialize" /\ op.raised
    /\ Len(buffer) = start_offset + StructDef_size(sdef) - 1

\* deserialize raised for a buffer that is long enough: the text is not UTF-8
ReadDecodeErrorReached ==
    /\ op.kind = "deserialize" /\ op.raised
    /\ ReadLongEnough
    /\ DictHas(sdef.fields, "t")
    /\ ~DictHas(sdef.fields, "wide")

-----------------------------------------------------------------------------
(* SpecRemove: a layout cut down by remove_to and remove_from               *)

\* the number of fields added before the layout is cut down
MaxRemoveFields == 3

RemoveFieldNames == <<"a", "b", "c", "d">>

\* the fields that can be added: scalars of 1, 2 and 4 bytes and a
\* flattened bitfield of one byte
RemoveMenu ==
    << [datatype |-> TypeName("uint8"), same_level |-> FALSE],
       [datatype |-> TypeName("uint16"), same_level |-> FALSE],
       [datatype |-> TypeName("uint32"), same_level |-> FALSE],
       [datatype |-> Bitfield8, same_level |-> TRUE] >>

\* the names given to remove_to and remove_from: fields, padding fields, an
\* element of the flattened bitfield and a name that was never added
RemoveArgs == {"a", "b", "c", "d", "__pad_0", "__pad_1", "__pad_end", "s", "zz"}

RemoveInit ==
    /\ phase = "define"
    /\ sys_byteorder \in {"little", "big"}
    /\ bitfield = NoBitfield
    /\ enum = NoEnum
    /\ \E alignment \in {1, 4}, union \in BOOLEAN :
        sdef = StructDef_init("native", alignment, union)
    /\ buffer = <<>>
    /\ start_offset = 0
    /\ nops = 0
    /\ op = [kind |-> "init"]

\* what "sdef.add(...)" leaves behind, r its outcome
RemoveAdded(r) ==
    /\ sdef' = r.sd
    /\ op' = [kind |-> "add", raised |-> r.raised]

\* sdef.add(datatype, name, same_level=same_level) of a menu entry under
\* the next name
RemoveAdd ==
    /\ phase = "define"
    /\ Len(Elements(sdef)) < MaxRemoveFields
    /\ \E k \in 1 .. Len(RemoveMenu) :
        RemoveAdded(StructDef_add(sdef, RemoveMenu[k].datatype,
                                  RemoveFieldNames[Len(Elements(sdef)) + 1], 1, "",
                                  RemoveMenu[k].same_level, <<>>))
    /\ UNCHANGED <<phase, sys_byteorder, bitfield, enum, buffer, start_offset, nops>>

\* what "sdef.remove_to(name)" or "sdef.remove_from(name)" leaves behind, r
\* its outcome
Removed(name, to_criteria, r) ==
    /\ sdef' = r.sd
    /\ op' = [kind |-> "remove", name |-> name, to |-> to_criteria, raised |-> r.raised,
              before |-> sdef]

\* sdef.remove_to(name)
RemoveTo ==
    /\ phase \in {"define", "subset"}
    /\ \E name \in RemoveArgs : Removed(name, TRUE, StructDef_remove_to(sdef, name))
    /\ phase' = "subset"
    /\ UNCHANGED <<sys_byteorder, bitfield, enum, buffer, start_offset, nops>>

\* sdef.remove_from(name)
RemoveFrom ==
    /\ phase \in {"define", "subset"}
    /\ \E name \in RemoveArgs : Removed(name, FALSE, StructDef_remove_from(sdef, name))
    /\ phase' = "subset"
    /\ UNCHANGED <<sys_byteorder, bitfield, enum, buffer, start_offset, nops>>

RemoveNext ==
    \/ RemoveAdd
    \/ RemoveTo
    \/ RemoveFrom

SpecRemove == RemoveInit /\ [][RemoveNext]_vars

\* the names of the fields, in order
NamesOf(fields) == [i \in 1 .. Len(fields) |-> fields[i].name]

\* the fields left are those after name (remove_to) or before it
\* (remove_from), in the order they had
RemoveLeft(before, after, name, to_criteria) ==
    \E k \in 1 .. Len(before) :
        /\ before[k].name = name
        /\ NamesOf(after) = IF to_criteria
                               THEN SubSeq(NamesOf(before), k + 1, Len(before))
                               ELSE SubSeq(NamesOf(before), 1, k - 1)

\* the offset the field called name has in fields
OffsetOf(fields, name) == DictGet(fields, name).offset

\* any two fields left are as far apart as they were
RemoveDistances(before, after) ==
    \A i, j \in 1 .. Len(after) :
        after[i].offset - after[j].offset
            = OffsetOf(before, after[i].name) - OffsetOf(before, after[j].name)

\* C18: remove_to(name) deletes every field from the first up to and
\* including name, and remove_from(name) deletes name and every field after
\* it; afterwards, if any field remains, the first remaining field has
\* offset 0 and the difference between the offsets of any two remaining
\* fields is the same as before the removal; a name that is not a field
\* raises and changes nothing.
C18_RemoveRebases ==
    op.kind = "remove" =>
        IF DictHas(op.before.fields, op.name)
        THEN /\ ~op.raised
             /\ RemoveLeft(op.before.fields, sdef.fields, op.name, op.to)
             /\ Len(sdef.fields) > 0 => sdef.fields[1].offset = 0
             /\ RemoveDistances(op.before.fields, sdef.fields)
        ELSE op.raised /\ sdef = op.before

\* remove_to took the first fields of a struct and left two or more, the
\* first of which was at an offset above 0 and is at 0 now
C18_Witness ==
    /\ op.kind = "remove" /\ op.to /\ ~op.raised
    /\ Len(sdef.fields) >= 2
    /\ OffsetOf(op.before.fields, sdef.fields[1].name) > 0
    /\ sdef.fields[1].offset = 0
    /\ sdef.fields[2].offset > 0

\* remove_from took the last fields and left two or more
RemoveFromReached ==
    /\ op.kind = "remove" /\ ~op.to /\ ~op.raised
    /\ Len(sdef.fields) >= 2
    /\ Len(sdef.fields) < Len(op.before.fields)

\* remove_to raised for an element of a flattened bitfield, which is no field
RemoveUnknownReached ==
    /\ op.kind = "remove" /\ op.raised /\ op.name = "s"
    /\ DictHas(op.before.fields_same_level, "s")
    /\ sdef = op.before

\* the fields of sd that hold a flattened bitfield
FlatFields(sd) == {sd.fields[i] : i \in {j \in 1 .. Len(sd.fields) : sd.fields[j].same_level}}

\* the result holds no entry under the name of f, and under every element
\* name of its bitfield the value the bitfield decodes at the offset of f
FlatDecoded(f) ==
    /\ f.name \notin DOMAIN op.result
    /\ \A n \in FlatNames(f) :
        /\ n \in DOMAIN op.result
        /\ op.result[n] = BitfieldDef_deserialize_element(f.type.def, n, buffer,
                                                          start_offset + f.offset).value

\* the write that op records did what w, the write of the bitfield itself at
\* the offset of its field, does
FlatSameWrite(w) ==
    /\ op.raised = w.raised
    /\ ~w.raised => buffer = w.buffer

\* the write that op records wrote the element of the bitfield of f
FlatEncoded(f) ==
    FlatSameWrite(BitfieldDef_serialize_element(f.type.def, op.name, op.value, op.before,
                                                start_offset + f.offset))

\* C19: for a StructDef holding a BitfieldDef added with same_level=True,
\* each element name of the bitfield is an element of the parent:
\* parent.deserialize returns each of them at top level (and no entry under
\* the bitfield field's own name) with the value the bitfield decodes at
\* parent offset + the bitfield field's offset, and parent.serialize (or an
\* Instance attribute write) of such a name writes that bitfield element at
\* that location.
C19_FlatElements ==
    /\ (op.kind = "deserialize" /\ ~op.raised) => \A f \in FlatFields(sdef) : FlatDecoded(f)
    /\ op.kind \in {"serialize", "setattr"} =>
        \A f \in FlatFields(sdef) : op.name \in FlatNames(f) => FlatEncoded(f)

\* deserialize at offset 1 of a struct whose flattened bitfield is at an
\* offset above 0: its elements are in the result under their own names
C19_Witness ==
    /\ op.kind = "deserialize" /\ ~op.raised
    /\ start_offset = 1
    /\ \E f \in FlatFields(sdef) : f.offset > 0 /\ FlatDecoded(f)
    /\ "u" \in DOMAIN op.result /\ ~Less(op.result["u"], FromInt(31))

\* every element name of the bitfield of f resolves through f
Unshadowed(sd, f) ==
    \A n \in FlatNames(f) : DictGet(sd.fields_same_level, n).parent = f.name

\* the statement of C19 for deserialize and serialize, where no two
\* flattened bitfields share an element name
FlatElementsOfDictionary ==
    /\ (op.kind = "deserialize" /\ ~op.raised) =>
        \A f \in FlatFields(sdef) : Unshadowed(sdef, f) => FlatDecoded(f)
    /\ op.kind = "serialize" =>
        \A f \in FlatFields(sdef) :
            (Unshadowed(sdef, f) /\ op.name \in FlatNames(f)) => FlatEncoded(f)

\* the Instance of a struct with a flattened bitfield could not be made, the
\* write of an element did not happen
FlatInstanceRaisedReached ==
    /\ op.kind = "setattr" /\ op.raised
    /\ op.name = "u" /\ op.value = FromInt(3)
    /\ \E f \in FlatFields(sdef) : Unshadowed(sdef, f)
    /\ Len(sdef.fields) = 1
    /\ buffer = op.before

\* serialize wrote an element of a flattened bitfield into the caller's
\* buffer at offset 1
FlatSerializedReached ==
    /\ op.kind = "serialize" /\ ~op.raised
    /\ start_offset = 1
    /\ buffer # op.before
    /\ \E f \in FlatFields(sdef) : f.offset > 0 /\ FlatEncoded(f)

\* of two flattened bitfields with the same element names deserialize reads
\* the second only
FlatShadowedReached ==
    /\ op.kind = "deserialize" /\ ~op.raised
    /\ \E f \in FlatFields(sdef) : ~Unshadowed(sdef, f) /\ ~FlatDecoded(f)

-----------------------------------------------------------------------------
(* SpecBytes: bytes() of a view over a caller's buffer                      *)

\* the largest buffer_offset of a view
MaxViewOffset == 1

\* the bytes of the buffer after the codec
MaxViewSpare == 1

\* a bitfield of two bytes with one element
Bitfield16 == BitfieldType(BitfieldDef_add(BitfieldDef_init("little", 2, "little"),
                                           "u", 5, FALSE).bf)

\* a struct of one array of two bytes
ArrayStruct ==
    StructDef_add(StructDef_init("native", 1, FALSE), TypeName("uint8"), "arr", 1, "", FALSE,
                  <<2>>).sd

\* the codec the view is over: the bitfield if there is one, else the struct
ViewType == IF bitfield.fields # <<>> THEN BitfieldType(bitfield) ELSE StructType(sdef)

BytesInit ==
    /\ phase = "define"
    /\ sys_byteorder \in {"little", "big"}
    /\ \/ bitfield \in {Bitfield8.def, Bitfield16.def} /\ sdef = NoStruct
       \/ bitfield = NoBitfield /\ sdef \in {NoStruct, ArrayStruct}
    /\ enum = NoEnum
    /\ buffer = <<>>
    /\ start_offset = 0
    /\ nops = 0
    /\ op = [kind |-> "init"]

\* the caller's buffer: the bytes before the view, those of the codec and
\* those after it
BytesLoad ==
    /\ phase = "define"
    /\ phase' = "loaded"
    /\ \E o \in 0 .. MaxViewOffset, spare \in 0 .. MaxViewSpare :
        /\ start_offset' = o
        /\ buffer' \in [1 .. o + Type_size(ViewType) + spare -> {1, 255}]
    /\ op' = [kind |-> "load"]
    /\ UNCHANGED <<sys_byteorder, bitfield, enum, sdef, nops>>

\* instance = Instance(datatype, buffer, start_offset)
BytesInstance ==
    /\ phase = "loaded"
    /\ op' = [kind |-> "instance", raised |-> Instance_init(ViewType).raised]
    /\ phase' = IF Instance_init(ViewType).raised THEN "done" ELSE "instance"
    /\ UNCHANGED <<sys_byteorder, bitfield, enum, sdef, buffer, start_offset, nops>>

\* instance.u = value
BytesSetattr ==
    /\ phase = "instance"
    /\ \E value \in {Zero, FromInt(31)} :
        InstanceWritten("u", value,
                        Instance_setattr(ViewType, Instance_init(ViewType), "u", value,
                                         buffer, start_offset))
    /\ UNCHANGED <<phase, sys_byteorder, bitfield, enum, sdef, start_offset, nops>>

\* what "result = bytes(view)" leaves behind, r its outcome
BytesConverted(kind, r) ==
    op' = [kind |-> kind, raised |-> r.raised, result |-> IF r.raised THEN <<>> ELSE r.value]

\* result = bytes(instance)
BytesOfInstance ==
    /\ phase = "instance"
    /\ BytesConverted("bytes", Instance_bytes(buffer, start_offset))
    /\ UNCHANGED <<phase, sys_byteorder, bitfield, enum, sdef, buffer, start_offset, nops>>

\* bytes(_InstanceList(datatype, "arr", buffer, buffer_offset)): [raised, value]
InstanceList_bytes_of_new(sd, name, buf, buffer_offset) ==
    IF InstanceList_init(sd, name).raised THEN [raised |-> TRUE, value |-> <<>>]
    ELSE InstanceList_bytes(buf, buffer_offset)

\* result = bytes(_InstanceList(sdef, "arr", buffer, start_offset))
BytesOfList ==
    /\ phase = "loaded"
    /\ DictHas(sdef.fields, "arr")
    /\ BytesConverted("listbytes", InstanceList_bytes_of_new(sdef, "arr", buffer, start_offset))
    /\ phase' = "done"
    /\ UNCHANGED <<sys_byteorder, bitfield, enum, sdef, buffer, start_offset, nops>>

BytesNext ==
    \/ BytesLoad
    \/ BytesInstance
    \/ BytesSetattr
    \/ BytesOfInstance
    \/ BytesOfList

SpecBytes == BytesInit /\ [][BytesNext]_vars

\* buffer[o : o + s] for the codec of the view
ViewRegion == Slice(buffer, start_offset, start_offset + Type_size(ViewType))

\* C20: bytes(instance), for an Instance or list view bound to start offset
\* o over a codec of size s, returns exactly buffer[o : o+s] of the shared
\* buffer, for every o and every buffer of length at least o+s, including
\* child views of nested fields and views created with a non-zero
\* buffer_offset.
C20_BytesIsRegion ==
    op.kind \in {"bytes", "listbytes"} => ~op.raised /\ op.result = ViewRegion

\* bytes() of an Instance of a bitfield made with buffer_offset 1 over a
\* buffer that goes on after the bitfield
C20_Witness ==
    /\ op.kind = "bytes" /\ ~op.raised
    /\ bitfield.fields # <<>>
    /\ start_offset = 1
    /\ Len(buffer) > start_offset + Type_size(ViewType)
    /\ ViewRegion # buffer

\* what bytes() of an Instance returns: the whole buffer
BytesIsBuffer == op.kind = "bytes" => ~op.raised /\ op.result = buffer

\* bytes() of an Instance whose buffer is just the codec's bytes
BytesWholeReached ==
    /\ op.kind = "bytes" /\ ~op.raised
    /\ start_offset = 0
    /\ Len(buffer) = 2
    /\ op.result = ViewRegion

\* no list view could be made of the array of the struct
BytesListRaisedReached == op.kind = "listbytes" /\ op.raised

-----------------------------------------------------------------------------
(* SpecView: reads and writes through an Instance over a caller's buffer    *)

\* the bytes a buffer is short of the codec, or has after it
MaxViewSlack == 1

\* a struct of a bitfield, a nested struct and an array of two bytes
NestedStruct ==
    StructDef_add(StructDef_add(StructDef_add(StructDef_init("native", 1, FALSE),
                                              Bitfield8, "bits", 1, "", FALSE, <<>>).sd,
                                InnerCodec, "inner", 1, "", FALSE, <<>>).sd,
                  TypeName("uint8"), "arr", 1, "", FALSE, <<2>>).sd

ViewInit ==
    /\ phase = "define"
    /\ sys_byteorder \in {"little", "big"}
    /\ \/ bitfield \in {Bitfield8.def, Bitfield16.def} /\ sdef = NoStruct
       \/ bitfield = NoBitfield /\ sdef \in {NoStruct, ArrayStruct, NestedStruct}
    /\ enum = NoEnum
    /\ buffer = <<>>
    /\ start_offset = 0
    /\ nops = 0
    /\ op = [kind |-> "init"]

\* the caller's buffer: up to MaxViewSlack bytes shorter or longer than the
\* codec at the offset needs
ViewLoad ==
    /\ phase = "define"
    /\ phase' = "loaded"
    /\ \E o \in 0 .. MaxViewOffset, d \in -MaxViewSlack .. MaxViewSlack :
        /\ o + Type_size(ViewType) + d >= 0
        /\ start_offset' = o
        /\ buffer' \in [1 .. o + Type_size(ViewType) + d -> {0, 255}]
    /\ op' = [kind |-> "load"]
    /\ UNCHANGED <<sys_byteorder, bitfield, enum, sdef, nops>>

\* instance = Instance(datatype, buffer, start_offset)
ViewInstance ==
    /\ phase = "loaded"
    /\ op' = [kind |-> "instance", raised |-> Instance_init(ViewType).raised]
    /\ phase' = IF Instance_init(ViewType).raised THEN "done" ELSE "instance"
    /\ UNCHANGED <<sys_byteorder, bitfield, enum, sdef, buffer, start_offset, nops>>

\* what a write leaves behind, r its outcome
ViewWritten(w, r) ==
    /\ op' = [w EXCEPT !.raised = r.raised]
    /\ buffer' = r.buffer

\* instance.item = value
ViewSetattr ==
    /\ phase = "instance"
    /\ \E item \in {"u", "s", "bits", "zz"}, value \in {Zero, FromInt(3), FromInt(31)} :
        ViewWritten([kind |-> "setattr", item |-> item, value |-> value, raised |-> FALSE,
                     before |-> buffer],
                    Instance_setattr(ViewType, Instance_init(ViewType), item, value, buffer,
                                     start_offset))
    /\ UNCHANGED <<phase, sys_byteorder, bitfield, enum, sdef, start_offset, nops>>

\* instance.item
ViewGetattr ==
    /\ phase = "instance"
    /\ \E item \in {"u", "s", "bits", "zz"} :
        InstanceRead(item, Instance_getattr(ViewType, Instance_init(ViewType), item, buffer,
                                            start_offset))
    /\ UNCHANGED <<phase, sys_byteorder, bitfield, enum, sdef, buffer, start_offset, nops>>

\* instance.child.u = value
ViewChildSetattr ==
    /\ phase = "instance"
    /\ \E child \in {"bits", "inner", "u"}, value \in {Zero, FromInt(3)} :
        ViewWritten([kind |-> "childwrite", child |-> child, item |-> "u", value |-> value,
                     raised |-> FALSE, before |-> buffer],
                    Instance_child_setattr(ViewType, Instance_init(ViewType), child, "u",
                                           value, buffer, start_offset))
    /\ UNCHANGED <<phase, sys_byteorder, bitfield, enum, sdef, start_offset, nops>>

\* _InstanceList(sdef, "arr", buffer, start_offset)[key] = value
ViewListSetitem ==
    /\ phase = "loaded"
    /\ DictHas(sdef.fields, "arr")
    /\ \E key \in {-1, 0, 2} :
        ViewWritten([kind |-> "setitem", key |-> key, value |-> One, raised |-> FALSE,
                     before |-> buffer],
                    InstanceList_setitem_of_new(sdef, "arr", key, One, buffer, start_offset))
    /\ phase' = "done"
    /\ UNCHANGED <<sys_byteorder, bitfield, enum, sdef, start_offset, nops>>

ViewNext ==
    \/ ViewLoad
    \/ ViewInstance
    \/ ViewSetattr
    \/ ViewGetattr
    \/ ViewChildSetattr
    \/ ViewListSetitem

SpecView == ViewInit /\ [][ViewNext]_vars

\* the names of the fields of the struct t that a child view backs: nested
\* structs, bitfields and arrays
ChildNames(t) ==
    IF t.kind # "struct" THEN {}
    ELSE {t.def.fields[i].name :
            i \in {j \in 1 .. Len(t.def.fields) :
                     t.def.fields[j].type.kind \in {"struct", "bitfield", "array"}}}

\* the names an Instance of t has as attributes
AttributeNames(t) == {Type_element_names(t)[i] : i \in 1 .. Len(Type_element_names(t))}

\* an Instance can be made of a struct that has fields for child views
ChildViewsMade == (op.kind = "instance" /\ ChildNames(ViewType) # {}) => ~op.raised

\* what the parent codec decodes for the element written through the child
ChildDecoded ==
    StructDef_deserialize(sdef, buffer, start_offset).value[op.child][op.item]

\* C21: a write through a child view (nested struct, bitfield, or list
\* element) of a struct Instance is immediately visible in bytes(parent
\* instance), in parent codec deserialize of those bytes, and in every later
\* read through any view over the same buffer: child views are bound to the
\* same buffer object at parent offset + field offset, and no view keeps a
\* copy of a field value.
C21_ChildWriteVisible ==
    /\ ChildViewsMade
    /\ (op.kind = "childwrite" /\ op.child \in ChildNames(ViewType)) =>
        ~op.raised /\ ChildDecoded = op.value

\* Instance(struct) was called for a struct of a bitfield, a nested struct
\* and an array, over a buffer that is long enough, and raised
C21_Witness ==
    /\ op.kind = "instance" /\ op.raised
    /\ ChildNames(ViewType) = {"bits", "inner", "arr"}
    /\ Len(buffer) >= start_offset + Type_size(ViewType)

\* C22: assigning to an Instance attribute that is backed by a child view
\* (nested struct, bitfield or array field), assigning to an index of a list
\* whose elements are struct or bitfield views, and reading or assigning an
\* unknown attribute or an index that is not an integer in [0, length) all
\* raise and leave the buffer unchanged.
C22_InvalidAccessRaises ==
    /\ (op.kind = "instance" /\ ChildNames(ViewType) # {}) => ~op.raised
    /\ (op.kind = "setattr"
        /\ (op.item \in ChildNames(ViewType) \/ op.item \notin AttributeNames(ViewType))) =>
        op.raised /\ buffer = op.before
    /\ (op.kind = "getattr" /\ op.item \notin AttributeNames(ViewType)) => op.raised
    /\ (op.kind = "setitem" /\ op.key \notin 0 .. 1) => op.raised /\ buffer = op.before

\* Instance(struct) raised for the struct of one array: there is no
\* attribute backed by a list view to assign to
C22_Witness ==
    /\ op.kind = "instance" /\ op.raised
    /\ ChildNames(ViewType) = {"arr"}

\* the statement of C22 for the views that can be made, those of a bitfield
\* and of a struct without fields
InvalidAccessRaises ==
    /\ (op.kind = "setattr" /\ op.item \notin AttributeNames(ViewType)) =>
        op.raised /\ buffer = op.before
    /\ (op.kind = "getattr" /\ op.item \notin AttributeNames(ViewType)) => op.raised
    /\ op.kind = "setitem" => op.raised /\ buffer = op.before
    /\ op.kind = "childwrite" => op.raised /\ buffer = op.before

\* an unknown attribute of the Instance of a bitfield was assigned and raised
UnknownAttributeReached ==
    /\ op.kind = "setattr" /\ op.item = "zz" /\ op.raised
    /\ ViewType.kind = "bitfield"
    /\ buffer = op.before

\* the element of the bitfield that op wrote, as it was before the write
ElementBefore ==
    BitfieldDef_deserialize_element(bitfield, op.item, op.before, start_offset).value

\* a read right after a write of the same element returns the value written
ReadsLastWrite ==
    (/\ ViewType.kind = "bitfield"
     /\ op.kind = "setattr" /\ ~op.raised
     /\ op'.kind = "getattr" /\ op'.item = op.item)
    => ~op'.raised /\ op'.value = op.value

\* C23: after any sequence of in-range writes to the elements of a bitfield
\* through an Instance (each write calling BitfieldDef._serialize_element on
\* the same buffer), reading an element returns the value most recently
\* written to that element, including when a non-zero value is overwritten
\* by zero or by a value with fewer set bits.
C23_ReadsLastWrite == [][ReadsLastWrite]_vars

\* zero was written to the element u of a bitfield that held 31 in it, in a
\* buffer that is long enough
C23_Witness ==
    /\ ViewType.kind = "bitfield"
    /\ op.kind = "setattr" /\ ~op.raised
    /\ op.item = "u" /\ op.value = Zero
    /\ Len(buffer) >= start_offset + Type_size(ViewType)
    /\ ElementBefore = FromInt(31)

\* a read right after a write of the unsigned element u returns the bits it
\* held or-ed with the bits written
ReadsOrOfWrites ==
    (/\ ViewType.kind = "bitfield"
     /\ op.kind = "setattr" /\ ~op.raised /\ op.item = "u"
     /\ Len(op.before) >= start_offset + Type_size(ViewType)
     /\ op'.kind = "getattr" /\ op'.item = "u")
    => ~op'.raised /\ op'.value = BitOr(ElementBefore, op.value)

\* what a write of an element of a bitfield does: it sets bits and clears
\* none
WriteOrsIn == [][ReadsOrOfWrites]_vars

-----------------------------------------------------------------------------
(* SpecWidths: a bitfield, of a forced size or not, filled by add           *)

\* the number of elements added to the bitfield
MaxWidthElems == 3

\* the widths of the elements
Widths == {-1, 0, 1, 7, 8, 57, 64}

WidthsInit ==
    /\ phase = "define"
    /\ sys_byteorder \in {"little", "big"}
    /\ \E size \in {-1, 1, 2, 9} : bitfield = BitfieldDef_init("native", size, sys_byteorder)
    /\ enum = NoEnum
    /\ sdef = NoStruct
    /\ buffer = <<>>
    /\ start_offset = 0
    /\ nops = 0
    /\ op = [kind |-> "init"]

\* what "bitfield.add(name, n, signed)" leaves behind, r its outcome
WidthsAdded(name, n, r) ==
    /\ bitfield' = r.bf
    /\ op' = [kind |-> "add", name |-> name, nbr_of_bits |-> n, raised |-> r.raised,
              before |-> bitfield]

\* bitfield.add(name, n, signed): a new name, or one that exists already
WidthsAdd ==
    /\ phase = "define"
    /\ Len(bitfield.fields) < MaxWidthElems
    /\ \E k \in 1 .. (Len(bitfield.fields) + 1), n \in Widths, signed \in BOOLEAN :
        WidthsAdded(BitsNames[k], n, BitfieldDef_add(bitfield, BitsNames[k], n, signed))
    /\ UNCHANGED <<phase, sys_byteorder, enum, sdef, buffer, start_offset, nops>>

WidthsNext == WidthsAdd

SpecWidths == WidthsInit /\ [][WidthsNext]_vars

\* the sum of the widths of the first n elements
WidthBefore(fields, n) == SumBits(SubSeq(fields, 1, n))

\* the bit positions of element i
WidthRange(fields, i) == fields[i].offset .. (fields[i].offset + fields[i].nbr_of_bits - 1)

\* the most bits the bitfield may hold: 8 x size when a size is forced, else
\* 64
WidthCeiling(bf) == IF bf.size >= 0 THEN 8 * bf.size ELSE 64

\* C24: after any sequence of BitfieldDef.add calls, element i starts at the
\* bit offset equal to the sum of the widths of the elements added before it
\* (so elements occupy pairwise disjoint bit ranges), the total assigned
\* width never exceeds 64 bits (8 x size when a size is forced), size() is
\* ceil(total width / 8) when no size is forced, and an add that reuses a
\* name or would exceed the ceiling raises and changes nothing.
C24_ElementsPacked ==
    /\ \A i \in 1 .. Len(bitfield.fields) :
        bitfield.fields[i].offset = WidthBefore(bitfield.fields, i - 1)
    /\ \A i, j \in 1 .. Len(bitfield.fields) :
        i # j => WidthRange(bitfield.fields, i) \cap WidthRange(bitfield.fields, j) = {}
    /\ WidthBefore(bitfield.fields, Len(bitfield.fields)) <= WidthCeiling(bitfield)
    /\ bitfield.size < 0 =>
        /\ 8 * BitfieldDef_size(bitfield) >= WidthBefore(bitfield.fields, Len(bitfield.fields))
        /\ 8 * (BitfieldDef_size(bitfield) - 1)
             < WidthBefore(bitfield.fields, Len(bitfield.fields))
    /\ op.kind = "add" =>
        IF \/ \E i \in 1 .. Len(op.before.fields) : op.before.fields[i].name = op.name
           \/ WidthBefore(op.before.fields, Len(op.before.fields)) + op.nbr_of_bits
                > WidthCeiling(op.before)
        THEN op.raised /\ bitfield = op.before
        ELSE ~op.raised /\ Len(bitfield.fields) = Len(op.before.fields) + 1

\* the third element of a bitfield of no forced size was added at bit 15,
\* after elements of 7 and 8 bits
C24_Witness ==
    /\ op.kind = "add" /\ ~op.raised
    /\ bitfield.size < 0
    /\ Len(bitfield.fields) = 3
    /\ bitfield.fields[2].offset = 7
    /\ bitfield.fields[3].offset = 15
    /\ bitfield.fields[3].nbr_of_bits = 1
    /\ BitfieldDef_size(bitfield) = 2

\* add raised for an element that would take the bitfield over 64 bits
WidthsOverReached ==
    /\ op.kind = "add" /\ op.raised
    /\ bitfield.size < 0
    /\ WidthBefore(bitfield.fields, Len(bitfield.fields)) = 64
    /\ op.nbr_of_bits = 1
    /\ op.name \notin {bitfield.fields[i].name : i \in 1 .. Len(bitfield.fields)}

\* no element has a negative width, nor has the one that op added or tried
\* to add
WidthsNatural ==
    /\ \A i \in 1 .. Len(bitfield.fields) : bitfield.fields[i].nbr_of_bits >= 0
    /\ op.kind = "add" => op.nbr_of_bits >= 0

\* the statement of C24 for elements of widths of 0 bits and more
ElementsPackedNatural == WidthsNatural => C24_ElementsPacked

\* an element of a negative width was added, and the element after it
\* starts inside the element before it
WidthsOverlapReached ==
    /\ op.kind = "add" /\ ~op.raised
    /\ Len(bitfield.fields) = 3
    /\ bitfield.fields[2].nbr_of_bits = -1
    /\ bitfield.fields[1].nbr_of_bits = 1
    /\ bitfield.fields[3].nbr_of_bits = 1
    /\ bitfield.fields[3].offset = bitfield.fields[1].offset

-----------------------------------------------------------------------------
(* Unions of SpecCodec: the order in which serialize writes the members     *)

\* the last declared member of sd that data gives a value for
LastSupplied(sd, data) ==
    Elements(sd)[CHOOSE i \in 1 .. Len(Elements(sd)) :
                    /\ Elements(sd)[i].name \in DOMAIN data
                    /\ \A j \in (i + 1) .. Len(Elements(sd)) :
                        Elements(sd)[j].name \notin DOMAIN data]

\* the bytes the type of the field f encodes value as, on its own
OwnEncoding(f, value) == Type_serialize(f.type, value, ZeroBytes(Type_size(f.type)), 0).buffer

\* the bytes of the buffer that the field f of a union covers
UnionBytes(f) == Slice(buffer, 0, Type_size(f.type))

\* serialize of a union returned for a dictionary of two members or more
UnionSerialized ==
    /\ op.kind = "serialize" /\ ~op.raised
    /\ sdef.union
    /\ Cardinality(DOMAIN op.data) >= 2

\* C25: StructDef.serialize on a union given values for several members
\* encodes the supplied members one after another in declaration order (not
\* in the key order of the input dictionary) into the same bytes starting at
\* offset 0, so the bytes covered by the last-declared supplied member equal
\* that member's own encoding.
C25_UnionLastWins ==
    UnionSerialized =>
        UnionBytes(LastSupplied(sdef, op.data))
            = OwnEncoding(LastSupplied(sdef, op.data), op.data[LastSupplied(sdef, op.data).name])

\* a union of the little-endian uint32 and then an int32 was serialized with
\* values for both: the four bytes are those of the int32
C25_Witness ==
    /\ UnionSerialized
    /\ DOMAIN op.data = {"u32", "i32"}
    /\ LastSupplied(sdef, op.data).name = "i32"
    /\ UnionBytes(LastSupplied(sdef, op.data))
         = OwnEncoding(LastSupplied(sdef, op.data), op.data["i32"])
    /\ UnionBytes(LastSupplied(sdef, op.data)) # OwnEncoding(Elements(sdef)[1], op.data["u32"])

\* the type writes every byte it covers: a scalar, an enum or an array of
\* scalars
WritesAllBytes(t) ==
    \/ t.kind \in {"basic", "enum"}
    \/ t.kind = "array" /\ t.type.kind = "basic"

\* the statement of C25 where the last member is a scalar, an enum or an
\* array of scalars
UnionLastPlainWins ==
    (UnionSerialized /\ WritesAllBytes(LastSupplied(sdef, op.data).type)) =>
        UnionBytes(LastSupplied(sdef, op.data))
            = OwnEncoding(LastSupplied(sdef, op.data), op.data[LastSupplied(sdef, op.data).name])

\* a bitfield declared after an int32 was serialized last, and its byte
\* holds bits of the int32
UnionBitfieldOredReached ==
    /\ UnionSerialized
    /\ LastSupplied(sdef, op.data).name = "bits"
    /\ Elements(sdef)[1].name = "i32"
    /\ UnionBytes(LastSupplied(sdef, op.data))
         # OwnEncoding(LastSupplied(sdef, op.data), op.data["bits"])

-----------------------------------------------------------------------------
(* SpecOverwrite: the struct of one text field of SpecText; a caller's      *)
(* buffer that holds bytes already is loaded, a string is serialized into   *)
(* it, and the buffer is deserialized.                                      *)

\* what "sdef.serialize({"text": data}, buffer, start_offset)" leaves behind
OverwriteSerialized(data, r) ==
    /\ op' = [kind |-> "write", data |-> data, raised |-> r.raised]
    /\ buffer' = r.buffer

\* sdef.serialize({"text": data}, buffer, start_offset)
OverwriteSerialize ==
    /\ phase = "loaded"
    /\ phase' = "written"
    /\ \E data \in TextStrings :
        OverwriteSerialized(data, StructDef_serialize(sdef, [text |-> data], buffer, start_offset))
    /\ UNCHANGED <<sys_byteorder, bitfield, enum, sdef, start_offset, nops>>

\* what "result = sdef.deserialize(buffer, start_offset)" leaves behind after
\* data was written
OverwriteDeserialized(data, r) ==
    op' = [kind |-> "read", data |-> data, raised |-> r.raised, result |-> r.value]

\* result = sdef.deserialize(buffer, start_offset), after a write that returned
OverwriteDeserialize ==
    /\ phase = "written"
    /\ ~op.raised
    /\ phase' = "done"
    /\ OverwriteDeserialized(op.data, StructDef_deserialize(sdef, buffer, start_offset))
    /\ UNCHANGED <<sys_byteorder, bitfield, enum, sdef, buffer, start_offset, nops>>

OverwriteNext == TextLoad \/ OverwriteSerialize \/ OverwriteDeserialize

SpecOverwrite == TextInit /\ [][OverwriteNext]_vars

\* the string s has a UTF-8 encoding of at most the capacity of the field and
\* holds no NUL character
FitsTextField(s) ==
    /\ ~Utf8Encode(s).raised
    /\ Len(Utf8Bytes(s)) <= TextLength
    /\ \A k \in 1 .. Len(s) : s[k] # 0

\* C26: after a text s (UTF-8 length <= N, containing no NUL character) is
\* written to an N-byte text field of a buffer that already holds arbitrary
\* bytes, reading the field returns s.
C26_TextReadsBack ==
    (op.kind = "read" /\ FitsTextField(op.data)) =>
        /\ ~op.raised
        /\ op.result = [text |-> op.data]

\* "hi" was written over a region of five zero bytes and read back as "hi"
C26_Witness ==
    /\ op.kind = "read" /\ ~op.raised
    /\ TextLength = 5
    /\ op.data = <<104, 105>>
    /\ TextRegion = <<104, 105, 0, 0, 0>>
    /\ op.result = [text |-> <<104, 105>>]

\* the byte of the region that follows the encoding of s is zero, or the
\* encoding fills the region
TextTerminated(s) ==
    \/ Len(Utf8Bytes(s)) = TextLength
    \/ TextRegion[Len(Utf8Bytes(s)) + 1] = 0

\* the statement of C26 where the buffer already held a zero byte right after
\* the place of the encoding, or the encoding fills the field
TerminatedTextReadsBack ==
    (op.kind = "read" /\ FitsTextField(op.data) /\ TextTerminated(op.data)) =>
        /\ ~op.raised
        /\ op.result = [text |-> op.data]

\* "h" was written over b"aaa" and read back as "haa"
TextTailKeptReached ==
    /\ op.kind = "read" /\ ~op.raised
    /\ op.data = <<104>>
    /\ TextRegion = <<104, 97, 97>>
    /\ op.result = [text |-> <<104, 97, 97>>]

-----------------------------------------------------------------------------
(* SpecNames: a struct or union built by add calls whose names meet the     *)
(* element names of bitfields flattened into it                             *)

\* the number of add calls
MaxNameAdds == 3

\* the fields that can be added: scalars called x, u and s, and the bitfield
\* of the elements s and u as one field and twice flattened into the parent
NamesMenu ==
    << [name |-> "x", datatype |-> TypeName("uint8"), same_level |-> FALSE],
       [name |-> "u", datatype |-> TypeName("uint8"), same_level |-> FALSE],
       [name |-> "s", datatype |-> TypeName("uint16"), same_level |-> FALSE],
       [name |-> "bits", datatype |-> Bitfield8, same_level |-> FALSE],
       [name |-> "flat", datatype |-> Bitfield8, same_level |-> TRUE],
       [name |-> "flat2", datatype |-> Bitfield8, same_level |-> TRUE] >>

NamesInit ==
    /\ phase = "define"
    /\ sys_byteorder \in {"little", "big"}
    /\ bitfield = NoBitfield
    /\ enum = NoEnum
    /\ \E alignment \in {1, 2}, union \in BOOLEAN :
        sdef = StructDef_init("native", alignment, union)
    /\ buffer = <<>>
    /\ start_offset = 0
    /\ nops = 0
    /\ op = [kind |-> "init"]

\* what "sdef.add(...)" of the menu entry a leaves behind, r its outcome
NamesAdded(a, r) ==
    /\ sdef' = r.sd
    /\ op' = [kind |-> "add", args |-> a, before |-> sdef, raised |-> r.raised]

\* sdef.add(datatype, name, same_level=same_level) of a menu entry
NamesAdd ==
    /\ phase = "define"
    /\ nops < MaxNameAdds
    /\ nops' = nops + 1
    /\ \E k \in 1 .. Len(NamesMenu) :
        NamesAdded(NamesMenu[k],
                   StructDef_add(sdef, NamesMenu[k].datatype, NamesMenu[k].name, 1, "",
                                 NamesMenu[k].same_level, <<>>))
    /\ UNCHANGED <<phase, sys_byteorder, bitfield, enum, buffer, start_offset>>

NamesNext == NamesAdd

SpecNames == NamesInit /\ [][NamesNext]_vars

\* no value occurs twice in the sequence q
PairwiseDistinct(q) == \A i, j \in 1 .. Len(q) : q[i] = q[j] => i = j

\* the names of the fields of sd that are not padding
OwnFieldNames(sd) == {Elements(sd)[i].name : i \in 1 .. Len(Elements(sd))}

\* the element names of the bitfields flattened into sd
FlattenedNames(sd) ==
    UNION {FlatNames(Elements(sd)[i]) : i \in {j \in 1 .. Len(Elements(sd)) : Elements(sd)[j].same_level}}

\* the call a gives a name that is an element name of a bitfield flattened
\* into sd, or flattens a bitfield of which an element name is a field name
\* of sd or an element name of a bitfield flattened into sd
NameCollides(sd, a) ==
    \/ a.name \in FlattenedNames(sd)
    \/ /\ a.same_level
       /\ \E i \in 1 .. Len(a.datatype.def.fields) :
            a.datatype.def.fields[i].name \in OwnFieldNames(sd) \cup FlattenedNames(sd)

\* C27: after any sequence of successful StructDef.add calls the element
\* names the struct exposes (field names plus the element names of bitfields
\* added with same_level=True) are pairwise distinct: add rejects a field
\* whose name equals an already exposed flattened element name, and rejects
\* a same_level bitfield whose element names collide with existing field
\* names or existing flattened names.
C27_NamesDistinct ==
    /\ PairwiseDistinct(StructDef_element_names(sdef))
    /\ (op.kind = "add" /\ NameCollides(op.before, op.args)) =>
          (op.raised /\ sdef = op.before)

\* x, the flattened bitfield and the bitfield as the field bits were added:
\* the exposed names are x, s, u and bits
C27_Witness ==
    /\ op.kind = "add" /\ ~op.raised
    /\ StructDef_element_names(sdef) = <<"x", "s", "u", "bits">>

\* the names of the fields themselves are pairwise distinct, and add of a
\* name that is a field already raises and changes nothing
FieldNamesDistinct ==
    /\ \A i, j \in 1 .. Len(sdef.fields) : sdef.fields[i].name = sdef.fields[j].name => i = j
    /\ (op.kind = "add" /\ op.args.name \in OwnFieldNames(op.before)) =>
          (op.raised /\ sdef = op.before)

\* the field u was added after the bitfield with the element u was
\* flattened, and the name u is exposed twice
NameTwiceReached ==
    /\ op.kind = "add" /\ ~op.raised
    /\ op.args.name = "u"
    /\ StructDef_element_names(sdef) = <<"s", "u", "u">>

\* the bitfield was flattened twice, and the elements of the first one are
\* not exposed any more
FlattenedTwiceReached ==
    /\ op.kind = "add" /\ ~op.raised
    /\ op.args.name = "flat2"
    /\ OwnFieldNames(sdef) = {"flat", "flat2"}
    /\ StructDef_element_names(sdef) = <<"s", "u">>

-----------------------------------------------------------------------------
(* SpecFrame: one write of a codec into a caller's buffer at an offset, the *)
(* buffer being shorter than, as long as or longer than the codec needs     *)

\* the largest offset of a write
MaxFrameOffset == 1

\* the bytes a buffer is short of the codec, or has after it
MaxFrameSlack == 1

\* a struct of one field of the type datatype and the given length and shape
OneField(datatype, name, length, shape) ==
    StructDef_add(StructDef_init("native", 1, FALSE), datatype, name, length, "", FALSE,
                  shape).sd

\* the structs written: of a uint16, of a text of two bytes, of an array of
\* two bytes
FrameStructs ==
    {OneField(TypeName("uint16"), "x", 1, <<>>), OneField(TypeName("utf-8"), "t", 2, <<>>),
     ArrayStruct}

\* the codec written: the enum, the bitfield or the struct
FrameType ==
    IF enum.constants # <<>> THEN EnumType(enum)
    ELSE IF bitfield.fields # <<>> THEN BitfieldType(bitfield)
    ELSE StructType(sdef)

\* a value the scalar, text, array, bitfield or enum type t encodes
MemberValue(t) ==
    CASE t.kind = "basic" -> FromInt(258)
      [] t.kind = "string" -> <<104>>
      [] t.kind = "array" -> <<One, FromInt(2)>>
      [] t.kind = "bitfield" -> [s |-> FromInt(3), u |-> FromInt(4)]
      [] t.kind = "enum" -> "c"

\* a value the type t encodes: for a struct the dictionary of its field
FrameValue(t) ==
    IF t.kind = "struct"
    THEN [n \in {t.def.fields[1].name} |-> MemberValue(t.def.fields[1].type)]
    ELSE MemberValue(t)

FrameInit ==
    /\ phase = "define"
    /\ sys_byteorder \in {"little", "big"}
    /\ \/ enum = Enum3.def /\ bitfield = NoBitfield /\ sdef = NoStruct
       \/ enum = NoEnum /\ bitfield = Bitfield8.def /\ sdef = NoStruct
       \/ enum = NoEnum /\ bitfield = NoBitfield /\ sdef \in FrameStructs
    /\ buffer = <<>>
    /\ start_offset = 0
    /\ nops = 0
    /\ op = [kind |-> "init"]

\* the caller's buffer: up to MaxFrameSlack bytes shorter or longer than the
\* codec at the offset needs
FrameLoad ==
    /\ phase = "define"
    /\ phase' = "loaded"
    /\ \E o \in 0 .. MaxFrameOffset, d \in -MaxFrameSlack .. MaxFrameSlack :
        /\ start_offset' = o
        /\ buffer' \in [1 .. o + Type_size(FrameType) + d -> {0, 255}]
    /\ op' = [kind |-> "load"]
    /\ UNCHANGED <<sys_byteorder, bitfield, enum, sdef, nops>>

\* what a write of the codec t leaves behind, r its outcome
FrameWritten(kind, t, r) ==
    /\ op' = [kind |-> kind, codec |-> t.kind, size |-> Type_size(t), before |-> buffer,
              raised |-> r.raised]
    /\ buffer' = r.buffer
    /\ phase' = "done"

\* codec.serialize(data, buffer, start_offset)
FrameSerialize ==
    /\ phase = "loaded"
    /\ FrameWritten("serialize", FrameType,
                    Type_serialize(FrameType, FrameValue(FrameType), buffer, start_offset))
    /\ UNCHANGED <<sys_byteorder, bitfield, enum, sdef, start_offset, nops>>

\* serialize(data, buffer, start_offset) of the scalar, text or array codec
\* that is the type of the field of the struct
FrameMemberSerialize ==
    /\ phase = "loaded"
    /\ FrameType.kind = "struct"
    /\ FrameWritten("serialize", sdef.fields[1].type,
                    Type_serialize(sdef.fields[1].type, FrameValue(sdef.fields[1].type),
                                   buffer, start_offset))
    /\ UNCHANGED <<sys_byteorder, bitfield, enum, sdef, start_offset, nops>>

\* Instance(bitfield, buffer, start_offset).item = value
FrameSetattr ==
    /\ phase = "loaded"
    /\ FrameType.kind = "bitfield"
    /\ \E item \in {"s", "u"}, value \in {Zero, FromInt(3)} :
        FrameWritten("setattr", FrameType,
                     Instance_setattr(FrameType, Instance_init(FrameType), item, value,
                                      buffer, start_offset))
    /\ UNCHANGED <<sys_byteorder, bitfield, enum, sdef, start_offset, nops>>

FrameNext == FrameLoad \/ FrameSerialize \/ FrameMemberSerialize \/ FrameSetattr

SpecFrame == FrameInit /\ [][FrameNext]_vars

\* a write was made
FrameWrote == op.kind \in {"serialize", "setattr"}

\* the buffer was shorter than start_offset + size()
FrameShort == Len(op.before) < start_offset + op.size

\* the length of the buffer and the bytes outside [start_offset,
\* start_offset + size()) are as before the write
FrameKept ==
    /\ Len(buffer) = Len(op.before)
    /\ \A j \in 1 .. Len(op.before) :
        j \notin (start_offset + 1) .. (start_offset + op.size) => buffer[j] = op.before[j]

\* C28: serialize(data, buffer, offset) on any codec (scalar, text, array,
\* struct, bitfield, enum) and any write through an Instance never changes
\* len(buffer) and never modifies a byte outside [offset, offset + size());
\* when the supplied buffer is shorter than offset + size() the operation
\* fails instead of growing the buffer.
C28_FrameKept ==
    FrameWrote =>
        /\ FrameKept
        /\ FrameShort => (op.raised /\ buffer = op.before)

\* the struct of a uint16 was serialized at offset 1 into five bytes 255: the
\* two bytes of the field changed, the others are as before
C28_Witness ==
    /\ op.kind = "serialize" /\ ~op.raised
    /\ op.codec = "struct"
    /\ start_offset = 1
    /\ op.before = <<255, 255, 255, 255>>
    /\ Len(buffer) = 4
    /\ buffer[1] = 255 /\ buffer[4] = 255
    /\ {buffer[2], buffer[3]} = {1, 2}

\* the statement of C28 for serialize of a scalar, a text, an array, a struct
\* and a bitfield
CheckedFrameKept ==
    (op.kind = "serialize" /\ op.codec # "enum") =>
        /\ FrameKept
        /\ FrameShort => (op.raised /\ buffer = op.before)

\* a buffer of the right length is left at its length by every write
FittingFrameKept == (FrameWrote /\ ~FrameShort) => FrameKept

\* the enum was serialized into a buffer one byte short and the buffer grew
EnumGrewReached ==
    /\ op.kind = "serialize" /\ ~op.raised
    /\ op.codec = "enum"
    /\ FrameShort
    /\ Len(buffer) = Len(op.before) + 1

\* a bitfield element was written through an Instance into a buffer one byte
\* short and the buffer grew
SetattrGrewReached ==
    /\ op.kind = "setattr" /\ ~op.raised
    /\ FrameShort
    /\ Len(buffer) = Len(op.before) + 1

-----------------------------------------------------------------------------
(* The size of the layouts of SpecRemove after remove_to and remove_from    *)

\* min(A, _largest_member()) of sd
AlignmentUnit(sd) == Min(sd.alignment, StructDef_largest_member(sd))

\* size() of sd is a multiple of its alignment unit, and for a union it is
\* the size of the largest element plus the smallest padding that makes it
\* one
SizeAligned(sd) ==
    AlignmentUnit(sd) > 0 =>
        /\ StructDef_size(sd) % AlignmentUnit(sd) = 0
        /\ sd.union => /\ StructDef_size(sd) >= LargestElement(sd)
                       /\ StructDef_size(sd) < LargestElement(sd) + AlignmentUnit(sd)

\* remove_to or remove_from returned and left a field that is not padding
RemovedSome ==
    /\ op.kind = "remove" /\ ~op.raised
    /\ Len(Elements(sdef)) >= 1

\* C29: after remove_from or remove_to on a StructDef (struct or union) with
\* alignment unit A that leaves at least one field, size() mod
\* min(A, _largest_member()) == 0, and for a union size() is still the
\* largest remaining field size plus the minimal trailing padding.
C29_RemoveKeepsSize == RemovedSome => SizeAligned(sdef)

\* remove_from took the uint8 that ended a struct aligned to 4 of two uint32
\* and a uint8, with its end padding: the size went from 12 to 8
C29_Witness ==
    /\ RemovedSome /\ ~op.to
    /\ ~sdef.union /\ sdef.alignment = 4
    /\ StructDef_size(op.before) = 12
    /\ Len(sdef.fields) = 2
    /\ StructDef_size(sdef) = 8
    /\ SizeAligned(sdef)

\* the statement of C29 for the layouts that were aligned before the removal
\* and are packed, with alignment 1
PackedRemoveKeepsSize ==
    (RemovedSome /\ sdef.alignment = 1 /\ SizeAligned(op.before)) => SizeAligned(sdef)

\* remove_to("a") on the struct aligned to 4 of a uint8, a uint32 and a
\* uint16 left the padding after a, b, c and the end padding: size 11
RemoveToOddSizeReached ==
    /\ RemovedSome /\ op.to /\ op.name = "a"
    /\ ~sdef.union /\ sdef.alignment = 4
    /\ NamesOf(sdef.fields) = <<"__pad_0", "b", "c", "__pad_end">>
    /\ StructDef_size(op.before) = 12
    /\ StructDef_size(sdef) = 11
    /\ StructDef_largest_member(sdef) = 4

-----------------------------------------------------------------------------
(* SpecGrow: a struct that holds a BitfieldDef and an EnumDef as members,   *)
(* while add is called on the struct and on the two member objects.  The    *)
(* struct keeps a reference to a member object, so an add on the object is  *)
(* seen through the field that holds it.                                    *)

\* the number of fields added to the struct
MaxGrowFields == 3

\* the number of elements added to the bitfield, and of constants added to
\* the enum
MaxGrowElems == 2

GrowElemNames == <<"p", "q", "r">>

\* the fields that can be added to the struct: the bitfield object, the enum
\* object and scalars of one and two bytes
GrowMenu ==
    << [name |-> "bf", datatype |-> BitfieldType(bitfield)],
       [name |-> "en", datatype |-> EnumType(enum)],
       [name |-> "x", datatype |-> TypeName("uint8")],
       [name |-> "y", datatype |-> TypeName("uint16")] >>

GrowInit ==
    /\ phase = "define"
    /\ sys_byteorder \in {"little", "big"}
    /\ bitfield = BitfieldDef_init("little", -1, "little")
    /\ enum = EnumDef_init("little", -1, FALSE, "little")
    /\ \E alignment \in {1, 4} : sdef = StructDef_init("native", alignment, FALSE)
    /\ buffer = <<>>
    /\ start_offset = 0
    /\ nops = 0
    /\ op = [kind |-> "init"]

\* what "sdef.add(datatype, name)" leaves behind, r its outcome
GrowAdded(r) ==
    /\ sdef' = r.sd
    /\ op' = [kind |-> "add", raised |-> r.raised]

\* sdef.add(datatype, name) of a menu entry
GrowAdd ==
    /\ phase = "define"
    /\ Len(Elements(sdef)) < MaxGrowFields
    /\ \E k \in 1 .. Len(GrowMenu) :
        GrowAdded(StructDef_add(sdef, GrowMenu[k].datatype, GrowMenu[k].name, 1, "", FALSE,
                                <<>>))
    /\ UNCHANGED <<phase, sys_byteorder, bitfield, enum, buffer, start_offset, nops>>

\* the struct sd seen after the member object its field name refers to became
\* t: the field, if there is one, holds t, and nothing else changed
Referring(sd, name, t) ==
    [sd EXCEPT !.fields = [i \in 1 .. Len(sd.fields) |->
                              IF sd.fields[i].name = name
                              THEN [sd.fields[i] EXCEPT !.type = t]
                              ELSE sd.fields[i]]]

\* what an add on a member object leaves behind: held says that the object
\* is a field of the struct
MemberAdded(kind, held, raised) ==
    /\ op' = [kind |-> kind, raised |-> raised]
    /\ nops' = IF held THEN nops + 1 ELSE nops

\* what "bitfield.add(name, nbr_of_bits)" leaves behind, r its outcome
BitfieldGrown(r) ==
    /\ bitfield' = r.bf
    /\ sdef' = Referring(sdef, "bf", BitfieldType(r.bf))
    /\ MemberAdded("bitfield.add", DictHas(sdef.fields, "bf"), r.raised)

\* bitfield.add(name, nbr_of_bits) on the BitfieldDef object
GrowBitfieldAdd ==
    /\ phase = "define"
    /\ Len(bitfield.fields) < MaxGrowElems
    /\ \E nbr_of_bits \in {3, 8} :
        BitfieldGrown(BitfieldDef_add(bitfield, GrowElemNames[Len(bitfield.fields) + 1],
                                      nbr_of_bits, FALSE))
    /\ UNCHANGED <<phase, sys_byteorder, enum, buffer, start_offset>>

\* what "enum.add(name, value)" leaves behind, r its outcome
EnumGrown(r) ==
    /\ enum' = r.e
    /\ sdef' = Referring(sdef, "en", EnumType(r.e))
    /\ MemberAdded("enum.add", DictHas(sdef.fields, "en"), r.raised)

\* enum.add(name) and enum.add(name, 300) on the EnumDef object
GrowEnumAdd ==
    /\ phase = "define"
    /\ Len(enum.constants) < MaxGrowElems
    /\ \E auto \in BOOLEAN :
        EnumGrown(EnumDef_add(enum, GrowElemNames[Len(enum.constants) + 1], auto,
                              FromInt(300)))
    /\ UNCHANGED <<phase, sys_byteorder, bitfield, buffer, start_offset>>

GrowNext == GrowAdd \/ GrowBitfieldAdd \/ GrowEnumAdd

SpecGrow == GrowInit /\ [][GrowNext]_vars

\* the sum of the current size() of the first n fields
SizeBefore(fields, n) == SizeLoop(fields, 1, 0, 0).all_elem_size - SizeLoop(fields, n + 1, 0, 0).all_elem_size

\* each field's stored offset is the sum of the current size() of the fields
\* before it, and size() is the last field's offset plus its size
OffsetsAreSums(sd) ==
    /\ \A i \in 1 .. Len(sd.fields) : sd.fields[i].offset = SizeBefore(sd.fields, i - 1)
    /\ sd.fields # <<>> =>
          StructDef_size(sd) = sd.fields[Len(sd.fields)].offset
                               + Type_size(sd.fields[Len(sd.fields)].type)

\* C30: in every state reachable by add calls on a non-union StructDef and by
\* add calls on the BitfieldDef, EnumDef or StructDef objects it already
\* contains as members, each field's stored offset equals the sum of the
\* current size() of all fields before it, so no two fields overlap and
\* size() equals the last field's offset plus its size.
C30_OffsetsAreSums == OffsetsAreSums(sdef)

\* the bitfield got an element of 8 bits and was added to the struct, then a
\* uint16: the offsets are 0 and 1 and the size is 3
C30_Witness ==
    /\ op.kind = "add" /\ ~op.raised
    /\ sdef.alignment = 1
    /\ NamesOf(sdef.fields) = <<"bf", "y">>
    /\ Type_size(sdef.fields[1].type) = 1
    /\ sdef.fields[2].offset = 1
    /\ StructDef_size(sdef) = 3
    /\ nops = 0

\* the statement of C30 as long as add was not called on a member object that
\* the struct holds
UngrownOffsetsAreSums == nops = 0 => OffsetsAreSums(sdef)

\* the bitfield got a second element of 8 bits after it and a uint8 were added
\* to the struct: the uint8 is still at offset 1, inside the two bytes of the
\* bitfield
MemberGrewReached ==
    /\ op.kind = "bitfield.add" /\ ~op.raised
    /\ NamesOf(sdef.fields) = <<"bf", "x">>
    /\ Type_size(sdef.fields[1].type) = 2
    /\ sdef.fields[2].offset = 1
    /\ StructDef_size(sdef) = 3

====
